---- MODULE Spec2Model ----
(***************************************************************************)
(* A model of go3270: the telnet byte framer, the 3270 buffer-address      *)
(* codec, the response reader, the screen writer, the ShowScreenOpts       *)
(* session loop and the telnet option negotiation.                         *)
(*                                                                         *)
(* Bytes are the integers 0..255.  Strings are sequences of Unicode code   *)
(* points.  Maps are functions whose DOMAIN is the key set.                *)
(***************************************************************************)
EXTENDS Integers, Sequences, FiniteSets, TLC

VARIABLES
    \* ---- addressing codec (getpos / decodeBufAddr) ----
    crow,       \* row argument of getpos
    ccol,       \* col argument of getpos
    ccols,      \* cols argument of getpos
    cenc,       \* bytes returned by getpos, as written to the wire
    cdec,       \* address decoded from those bytes read back through the framer
    cpc,        \* "input" -> "encoded" -> "decoded"
    \* ---- byte framer (telnetRead called repeatedly on one stream) ----
    fin,        \* the whole input stream X
    frest,      \* bytes of X not yet consumed
    fgot,       \* valid bytes returned so far, in order
    feors,      \* number of calls that returned isEor
    fpc,        \* "reading" -> "failed" (a read returned the transport error)
    flast,      \* the last telnetRead call: its passEOR and what it returned
    \* ---- response reader (readResponse on one inbound record) ----
    raid,       \* the AID byte the client sends
    rcur,       \* the two cursor-address bytes the client sends
    rbody,      \* what follows: tokens, an SBA with its two address bytes or a data byte
    rfm,        \* the fieldmap handed to readResponse
    rdev,       \* the DevInfo handed to readResponse (nil allowed)
    rin,        \* inbound bytes not yet consumed
    rres,       \* what readResponse returned: the Response and the error
    rpc,        \* "waiting" -> "returned"
    rcut,       \* where the record was cut short by its EOR, "none" for a whole record
    rnext,      \* the bytes of the record the client sent after it
    \* ---- negotiation (NegotiateTelnet on one connection) ----
    npc,        \* where NegotiateTelnet is: the Read it blocks in, or "done"
    ninb,       \* chunks that arrived and that no Read returned yet
    nclosed,    \* the client closed the connection
    nlog,       \* what the server's Reads returned and its Writes wrote, in order
    sentWillEOR,\* NegotiateTelnet's sentWillEOR
    sentWillBin,\* NegotiateTelnet's sentWillBin
    devtype,    \* NegotiateTelnet's devtype
    nres,       \* what NegotiateTelnet returned: the DevInfo and the error
    nsent,      \* number of chunks the client sent
    nwleft,     \* the Writes that succeed before the connection's Writes fail
    \* ---- screen writer (showScreenInternal called once) ----
    wscreen,    \* the Screen argument
    wvalues,    \* the values argument
    wcursor,    \* <<crow, ccol>>
    wclear,     \* the clear argument
    wdev,       \* the DevInfo argument (nil allowed)
    wbroken,    \* the connection's Write fails
    wfm,        \* the fieldmap returned
    werr,       \* the error returned
    wwire,      \* the byte strings conn.Write was called with, in order
    wpc,        \* "start" -> "written" or "failed"
    \* ---- session (ShowScreenOpts calls of two tasks on one connection) ----
    sscreen,    \* per call: the Screen argument
    sopts,      \* per call: the ScreenOpts argument
    spc,        \* per call: "idle", "start", "callback", "reading", "done"
    sfm,        \* per call: the local fm of ShowScreenOpts
    sres,       \* per call: what ShowScreenOpts returned
    slog,       \* per call: what the call did so far, in order
    sinb,       \* inbound bytes no Read has consumed yet
    sclosed,    \* the client closed the connection
    term,       \* the terminal: its fields, buffer size and cursor
    tsent,      \* the records the terminal sent: their groups, and when
    uhist,      \* the updates task U wrote: screen, NoClear, and when
    nupd,       \* number of calls task U started
    swire,      \* the Writes on the connection, in order: whose, and the bytes
    \* ---- keys (task A showing its screen again after every response) ----
    khist,      \* what the calls of task A returned, in order
    ksent,      \* the records the client sent: AID, cursor address, groups
    \* ---- code page (Encode of a string, Decode of the bytes) ----
    einput,     \* the string handed to Encode: its units, in order
    eout,       \* the bytes Encode returned
    eback,      \* the string Decode made of these bytes
    epc,        \* "input" -> "encoded" -> "decoded"
    \* ---- transactions (RunTransactions called once) ----
    xinit,      \* the arguments: dev, initial, data
    xnext,      \* RunTransactions' next
    xdata,      \* RunTransactions' data
    xhist,      \* the calls of transactions so far: what each got and returned
    xret,       \* what RunTransactions returned
    xpc,        \* "running" -> "returned"
    \* ---- HandleScreenAlt called once ----
    hargs,      \* the arguments: screen, rules, values, pfkeys, exitkeys, errorField
    myValues,   \* HandleScreenAlt's myValues
    hshown,     \* the values of the ShowScreenOpts calls so far, in order
    hresp,      \* what these calls returned, in order
    hret,       \* what HandleScreenAlt returned: the Response and the error
    hpc,        \* "show" -> "wait" -> "show" or "returned"
    \* ---- telnetReadN called again and again on one stream ----
    qrest,      \* the bytes of the stream not yet read
    qfrom,      \* the stream as the last call found it
    qn,         \* the n of the last call
    qres,       \* what the last call returned
    qpc,        \* "reading" -> "failed" (a call returned an error)
    \* ---- makeDeviceInfo's loop over one query reply ----
    pfields,    \* the structured fields of the reply, in order
    pres,       \* what the loop ended with
    ppc         \* "reply" -> "done"

codecVars  == <<crow, ccol, ccols, cenc, cdec, cpc>>
framerVars == <<fin, frest, fgot, feors, fpc, flast>>
respVars   == <<raid, rcur, rbody, rfm, rdev, rin, rres, rpc, rcut, rnext>>
negVars    == <<npc, ninb, nclosed, nlog, sentWillEOR, sentWillBin, devtype, nres, nsent,
                 nwleft>>
writerVars == <<wscreen, wvalues, wcursor, wclear, wdev, wbroken, wfm, werr, wwire, wpc>>
keysVars == <<khist, ksent>>
sessionVars == <<sscreen, sopts, spc, sfm, sres, slog, sinb, sclosed, term, tsent, uhist, nupd, swire>>

cpVars == <<einput, eout, eback, epc>>
txVars == <<xinit, xnext, xdata, xhist, xret, xpc>>
handleVars == <<hargs, myValues, hshown, hresp, hret, hpc>>
readNVars == <<qrest, qfrom, qn, qres, qpc>>
probeVars == <<pfields, pres, ppc>>
notCodec  == <<framerVars, respVars, negVars, writerVars, sessionVars, keysVars, cpVars, txVars, handleVars, readNVars, probeVars>>
notFramer == <<codecVars, respVars, negVars, writerVars, sessionVars, keysVars, cpVars, txVars, handleVars, readNVars, probeVars>>
notResp   == <<codecVars, framerVars, negVars, writerVars, sessionVars, keysVars, cpVars, txVars, handleVars, readNVars, probeVars>>
notNeg    == <<codecVars, framerVars, respVars, writerVars, sessionVars, keysVars, cpVars, txVars, handleVars, readNVars, probeVars>>
notWriter == <<codecVars, framerVars, respVars, negVars, sessionVars, keysVars, cpVars, txVars, handleVars, readNVars, probeVars>>
notSession == <<codecVars, framerVars, respVars, negVars, writerVars, keysVars, cpVars, txVars, handleVars, readNVars, probeVars>>
notKeys == <<codecVars, framerVars, respVars, negVars, writerVars, cpVars, txVars, handleVars, readNVars, probeVars>>
notCp == <<codecVars, framerVars, respVars, negVars, writerVars, sessionVars, keysVars, txVars, handleVars, readNVars, probeVars>>
notTx == <<codecVars, framerVars, respVars, negVars, writerVars, sessionVars, keysVars, cpVars, handleVars, readNVars, probeVars>>
notHandle == <<codecVars, framerVars, respVars, negVars, writerVars, sessionVars, keysVars, cpVars, txVars, readNVars, probeVars>>
notReadN == <<codecVars, framerVars, respVars, negVars, writerVars, sessionVars, keysVars, cpVars, txVars, handleVars, probeVars>>
notProbe == <<codecVars, framerVars, respVars, negVars, writerVars, sessionVars, keysVars, cpVars, txVars, handleVars, readNVars>>

-----------------------------------------------------------------------------
(* Telnet command bytes. *)
se   == 240
sb   == 250
will == 251
wont == 252
do   == 253
dont == 254
iac  == 255
eor  == 239

(* Telnet options. *)
binaryOption     == 0
eorOption        == 25
terminalType     == 24
terminalTypeIs   == 0
terminalTypeSend == 1

(* 3270 orders. *)
SBA == 17
IC  == 19
SF  == 29
SFE == 41

-----------------------------------------------------------------------------
(* Generic helpers. *)

EmptyMap == [x \in {} |-> 0]

MapPut(m, k, v) ==
    [x \in (DOMAIN m) \cup {k} |-> IF x = k THEN v ELSE m[x]]

Drop(s, n) == SubSeq(s, n + 1, Len(s))

Min(a, b) == IF a < b THEN a ELSE b

(* Op applied to the value of e: e is evaluated once, before Op's body     *)
(* runs, as a Go statement evaluates its operands before it continues.     *)
Strict(e, Op(_)) == CHOOSE y \in {Op(v) : v \in {e}} : TRUE

RECURSIVE SeqsUpTo(_, _)
SeqsUpTo(S, n) ==
    IF n = 0 THEN {<<>>}
    ELSE LET shorter == SeqsUpTo(S, n - 1)
         IN  shorter \cup {Append(s, x) : s \in {t \in shorter : Len(t) = n - 1}, x \in S}

-----------------------------------------------------------------------------
(* util.go: the 64-entry 3270 I/O code table. *)
codes ==
    << 64, 193, 194, 195, 196, 197, 198, 199, 200,
       201,  74,  75,  76,  77,  78,  79,  80, 209, 210, 211, 212,
       213, 214, 215, 216, 217,  90,  91,  92,  93,  94,  95,  96,
        97, 226, 227, 228, 229, 230, 231, 232, 233, 106, 107, 108,
       109, 110, 111, 240, 241, 242, 243, 244, 245, 246, 247, 248,
       249, 122, 123, 124, 125, 126, 127 >>

-----------------------------------------------------------------------------
(* telnetRead: one call on the bytes s still to come from the connection.  *)
(* closed says what a Read on exhausted input does: TRUE, the Read         *)
(* returns the transport error; FALSE, the Read blocks (the call does not  *)
(* return, blocked = TRUE, and nothing is consumed).  The state (normal,   *)
(* command, subneg) is local to the call and starts at normal.             *)

TRResult(b, valid, isEor, err, blocked, rest) ==
    [b |-> b, valid |-> valid, isEor |-> isEor, err |-> err,
     blocked |-> blocked, rest |-> rest]

(* The COMMAND state's test for the End-Of-Record command. *)
isEORCommandAnyMode(passEOR, b) == b = eor

isEORCommand(passEOR, b) == passEOR /\ b = eor

RECURSIVE telnetReadLoop(_, _, _, _)
telnetReadLoop(s0, state, passEOR, closed) ==
    Strict(s0, LAMBDA s :
        IF s = <<>>
        THEN IF closed
             THEN TRResult(0, FALSE, FALSE, "io", FALSE, s)
             ELSE TRResult(0, FALSE, FALSE, "nil", TRUE, s)
        ELSE CASE state = "normal" ->
                    IF Head(s) = iac
                    THEN telnetReadLoop(Tail(s), "command", passEOR, closed)
                    ELSE TRResult(Head(s), TRUE, FALSE, "nil", FALSE, Tail(s))
               [] state = "command" ->
                    IF Head(s) = 255
                    THEN TRResult(255, TRUE, FALSE, "nil", FALSE, Tail(s))
                    ELSE IF Head(s) = sb
                    THEN telnetReadLoop(Tail(s), "subneg", passEOR, closed)
                    ELSE IF isEORCommand(passEOR, Head(s))
                    THEN TRResult(0, FALSE, TRUE, "nil", FALSE, Tail(s))
                    ELSE telnetReadLoop(Tail(s), "normal", passEOR, closed)
               [] state = "subneg" ->
                    IF Head(s) = se
                    THEN telnetReadLoop(Tail(s), "normal", passEOR, closed)
                    ELSE telnetReadLoop(Tail(s), "subneg", passEOR, closed))

telnetRead(s0, passEOR, closed) ==
    Strict(s0, LAMBDA s :
        Strict(telnetReadLoop(s, "normal", passEOR, closed), LAMBDA r :
            IF r.blocked THEN [r EXCEPT !.rest = s] ELSE r))

-----------------------------------------------------------------------------
(* getpos without the telnet escape of a low byte 0xFF. *)
getposNoEscape(row, col, cols) ==
    LET address == row * cols + col
    IN  IF address < 4096
        THEN <<codes[((address \div 64) % 64) + 1], codes[(address % 64) + 1]>>
        ELSE <<(address \div 256) % 64, address % 256>>

(* screen.go getpos: row, col -> buffer address bytes. *)
getpos(row, col, cols) ==
    LET address == row * cols + col
    IN  IF address < 4096
        THEN LET hi == (address \div 64) % 64
                 lo == address % 64
             IN  <<codes[hi + 1], codes[lo + 1]>>
        ELSE LET hi == (address \div 256) % 64
                 lo == address % 256
             IN  IF lo = 255 THEN <<hi, 255, lo>> ELSE <<hi, lo>>

(* response.go decodeBufAddr: two raw bytes -> address. *)
decodeBufAddr(raw) ==
    IF raw[1] \div 64 = 0
    THEN raw[1] * 256 + raw[2]
    ELSE (raw[1] % 64) * 64 + (raw[2] % 64)

(* response.go readPosition: two bytes through telnetRead(c, false), then  *)
(* decodeBufAddr; col = addr % cols, row = (addr - col) / cols.            *)
PosResult(err, blocked, row, col, addr, rest) ==
    [err |-> err, blocked |-> blocked, row |-> row, col |-> col, addr |-> addr,
     rest |-> rest]

readPosition(s0, cols, closed) ==
    Strict(s0, LAMBDA s :
    Strict(telnetRead(s, FALSE, closed), LAMBDA r1 :
        IF r1.blocked THEN PosResult("nil", TRUE, 0, 0, 0, s)
        ELSE IF r1.err # "nil" THEN PosResult(r1.err, FALSE, 0, 0, 0, r1.rest)
        ELSE Strict(telnetRead(r1.rest, FALSE, closed), LAMBDA r2 :
            IF r2.blocked THEN PosResult("nil", TRUE, 0, 0, 0, s)
            ELSE IF r2.err # "nil" THEN PosResult(r2.err, FALSE, 0, 0, 0, r2.rest)
            ELSE Strict(decodeBufAddr(<<r1.b, r2.b>>), LAMBDA addr :
                PosResult("nil", FALSE, (addr - (addr % cols)) \div cols,
                          addr % cols, addr, r2.rest)))))

-----------------------------------------------------------------------------
(* internal/codepage: Decode.  The graphic-escape byte and the CP310 table *)
(* are in codepage.go; e2u is the CP1047 table, of which the model keeps   *)
(* the entries of the bytes it sends.                                      *)

ge == 8

(* U+FFFD, the placeholder of an unassigned CP310 position. *)
Unassigned == 65533

(* cp310ToUnicode, the entries of the model's data bytes: 0x40 is          *)
(* unassigned, 0xC1 is U+207D, 0xC2 is U+207A, 0x70 is U+25CA, 0x72 is     *)
(* U+00A8.                                                                 *)
ge2u(b) ==
    CASE b = 193 -> 8317
      [] b = 194 -> 8314
      [] b = 112 -> 9674
      [] b = 114 -> 168
      [] OTHER   -> Unassigned

(* CP1047 EBCDIC -> Unicode, the entries of the model's data bytes. *)
e2u(b) ==
    CASE b = 64  -> 32
      [] b = 193 -> 65
      [] b = 194 -> 66
      [] b = 187 -> 168
      [] b = 255 -> 159
      [] OTHER   -> 26

RECURSIVE DecodeLoop(_, _, _)
DecodeLoop(b0, escape, runes0) ==
    Strict(<<b0, runes0>>, LAMBDA a :
        IF a[1] = <<>> THEN a[2]
        ELSE IF escape
        THEN DecodeLoop(Tail(a[1]), FALSE,
                        Append(a[2], IF ge2u(Head(a[1])) # Unassigned
                                     THEN ge2u(Head(a[1])) ELSE 26))
        ELSE IF Head(a[1]) = ge
        THEN DecodeLoop(Tail(a[1]), TRUE, a[2])
        ELSE DecodeLoop(Tail(a[1]), FALSE, Append(a[2], e2u(Head(a[1])))))

Decode(b) == DecodeLoop(b, FALSE, <<>>)

-----------------------------------------------------------------------------
(* response.go: the response reader. *)

AIDNone  == 96
AIDEnter == 125
AIDPF3   == 243
AIDPA1   == 108
AIDPA2   == 110
AIDPA3   == 107
AIDClear == 109

(* The test of readAID. *)
IsAID(b) ==
    \/ b = 96
    \/ (b >= 107 /\ b <= 110)
    \/ (b >= 122 /\ b <= 125)
    \/ (b >= 74 /\ b <= 76)
    \/ (b >= 241 /\ b <= 249)
    \/ (b >= 193 /\ b <= 201)

AIDResult(aid, err, blocked, rest) ==
    [aid |-> aid, err |-> err, blocked |-> blocked, rest |-> rest]

(* An AID read without the search: the next byte of the connection is    *)
(* taken for the AID.                                                      *)
readAIDNextByte(s0, closed) ==
    IF s0 = <<>>
    THEN IF closed THEN AIDResult(AIDNone, "io", FALSE, s0)
         ELSE AIDResult(AIDNone, "nil", TRUE, s0)
    ELSE AIDResult(Head(s0), "nil", FALSE, Tail(s0))

RECURSIVE readAIDLoop(_, _)
readAIDLoop(s0, closed) ==
    Strict(telnetRead(s0, FALSE, closed), LAMBDA r :
        IF r.blocked THEN AIDResult(AIDNone, "nil", TRUE, r.rest)
        ELSE IF ~r.valid /\ r.err # "nil" THEN AIDResult(AIDNone, r.err, FALSE, r.rest)
        ELSE IF IsAID(r.b) THEN AIDResult(r.b, "nil", FALSE, r.rest)
        ELSE readAIDLoop(r.rest, closed))

readAID(s0, closed) ==
    Strict(s0, LAMBDA s :
        Strict(readAIDLoop(s, closed), LAMBDA r :
            IF r.blocked THEN [r EXCEPT !.rest = s] ELSE r))

(* handleField: the value goes under the name the fieldmap has for addr;   *)
(* an address the fieldmap does not have is dropped.                       *)
handleField(addr, value, fm, values) ==
    IF addr \notin DOMAIN fm
    THEN values
    ELSE MapPut(values, fm[addr], value)

(* readFields returning at the EOR without finishing the field in progress. *)
flushAtEorDropped(infield, fieldpos, fieldval, fm, values) ==
    values

(* readFields at the EOR: the field in progress is finished. *)
flushAtEor(infield, fieldpos, fieldval, fm, values) ==
    IF infield
    THEN handleField(fieldpos, Decode(fieldval), fm, values)
    ELSE values

(* readFields at an SBA: the previous field, if any, is finished. *)
flushAtSba(infield, fieldpos, fieldval, fm, values) ==
    IF infield
    THEN handleField(fieldpos, Decode(fieldval), fm, values)
    ELSE values

FieldsResult(values, err, blocked, rest) ==
    [values |-> values, err |-> err, blocked |-> blocked, rest |-> rest]

(* The locals of readFields between two iterations of its loop. *)
FieldsLocals(rest, infield, fieldpos, fieldval, values) ==
    [rest |-> rest, infield |-> infield, fieldpos |-> fieldpos,
     fieldval |-> fieldval, values |-> values]

RECURSIVE readFieldsLoop(_, _, _, _)
readFieldsLoop(l0, fm, cols, closed) ==
    Strict(l0, LAMBDA l :
    Strict(telnetRead(l.rest, TRUE, closed), LAMBDA r :
        IF r.blocked THEN FieldsResult(EmptyMap, "nil", TRUE, l.rest)
        ELSE IF r.err # "nil" THEN FieldsResult(EmptyMap, r.err, FALSE, r.rest)
        ELSE IF r.isEor
        THEN FieldsResult(flushAtEor(l.infield, l.fieldpos, l.fieldval, fm, l.values),
                          "nil", FALSE, r.rest)
        ELSE IF r.b = SBA
        THEN Strict(readPosition(r.rest, cols, closed), LAMBDA p :
                 IF p.blocked THEN FieldsResult(EmptyMap, "nil", TRUE, l.rest)
                 ELSE IF p.err # "nil" THEN FieldsResult(EmptyMap, p.err, FALSE, p.rest)
                 ELSE readFieldsLoop(
                          FieldsLocals(p.rest, TRUE, p.addr, <<>>,
                                       flushAtSba(l.infield, l.fieldpos, l.fieldval,
                                                  fm, l.values)),
                          fm, cols, closed))
        ELSE IF ~l.infield
        THEN readFieldsLoop([l EXCEPT !.rest = r.rest], fm, cols, closed)
        ELSE readFieldsLoop([l EXCEPT !.rest = r.rest,
                                      !.fieldval = Append(l.fieldval, r.b)],
                            fm, cols, closed)))

readFields(s0, fm, cols, closed) ==
    Strict(s0, LAMBDA s :
        Strict(readFieldsLoop(FieldsLocals(s, FALSE, 0, <<>>, EmptyMap), fm, cols, closed),
               LAMBDA f : IF f.blocked THEN [f EXCEPT !.rest = s] ELSE f))

(* A DevInfo is [nil, rows, cols, termtype, codepage]; nil = TRUE is the   *)
(* nil interface value.                                                    *)
NilDev == [nil |-> TRUE, rows |-> 0, cols |-> 0, termtype |-> "", codepage |-> "nil"]

DevOf(rows, cols, termtype, codepage) ==
    [nil |-> FALSE, rows |-> rows, cols |-> cols, termtype |-> termtype,
     codepage |-> codepage]

(* The zero Response; a nil Values map reads as the empty map. *)
ZeroResponse == [AID |-> 0, Row |-> 0, Col |-> 0, Values |-> EmptyMap]

ResponseResult(resp, err, blocked, rest) ==
    [resp |-> resp, err |-> err, blocked |-> blocked, rest |-> rest]

(* The column count readResponse decodes positions with. *)
responseCols(dev) == IF dev.nil THEN 80 ELSE dev.cols

(* A reader that goes on to the cursor address after every AID. *)
returnsEarlyNever(aid) == FALSE

(* The AIDs after which readResponse returns at once. *)
returnsEarly(aid) == aid = AIDClear \/ aid = AIDPA1 \/ aid = AIDPA2 \/ aid = AIDPA3

readResponse(s0, fm, dev, closed) ==
    Strict(s0, LAMBDA s :
    Strict(readAID(s, closed), LAMBDA a :
        IF a.blocked THEN ResponseResult(ZeroResponse, "nil", TRUE, s)
        ELSE IF a.err # "nil" THEN ResponseResult(ZeroResponse, a.err, FALSE, a.rest)
        ELSE IF returnsEarly(a.aid)
        THEN ResponseResult([ZeroResponse EXCEPT !.AID = a.aid], "nil", FALSE, a.rest)
        ELSE Strict(readPosition(a.rest, responseCols(dev), closed), LAMBDA p :
            IF p.blocked THEN ResponseResult(ZeroResponse, "nil", TRUE, s)
            ELSE IF p.err # "nil"
            THEN ResponseResult([ZeroResponse EXCEPT !.AID = a.aid], p.err, FALSE, p.rest)
            ELSE Strict(readFields(p.rest, fm, responseCols(dev), closed), LAMBDA f :
                IF f.blocked THEN ResponseResult(ZeroResponse, "nil", TRUE, s)
                ELSE IF f.err # "nil"
                THEN ResponseResult([AID |-> a.aid, Row |-> p.row, Col |-> p.col,
                                     Values |-> EmptyMap], f.err, FALSE, f.rest)
                ELSE ResponseResult([AID |-> a.aid, Row |-> p.row, Col |-> p.col,
                                     Values |-> f.values], "nil", FALSE, f.rest)))))

-----------------------------------------------------------------------------------------------------------------------------------------------------
(* Telnet option negotiation: NegotiateTelnet and what it calls.  The      *)
(* inbound side of the connection is a queue of chunks, one per segment    *)
(* the client sent; a Read returns bytes of the oldest chunk only.         *)

(* conn.Read(buf[:k]) with unread data present. *)
ConnRead(chunks, k) ==
    IF Len(Head(chunks)) <= k
    THEN [data |-> Head(chunks), rest |-> Tail(chunks)]
    ELSE [data |-> SubSeq(Head(chunks), 1, k),
          rest |-> <<Drop(Head(chunks), k)>> \o Tail(chunks)]

RECURSIVE Flatten(_)
Flatten(chunks0) ==
    Strict(chunks0, LAMBDA chunks :
        IF chunks = <<>> THEN <<>> ELSE Head(chunks) \o Flatten(Tail(chunks)))

(* The unread bytes put back as a queue of chunks. *)
Unread(bytes) == IF bytes = <<>> THEN <<>> ELSE <<bytes>>

expectedYes(mode) == IF mode = do THEN will ELSE do
expectedNo(mode)  == IF mode = do THEN wont ELSE dont

(* A client DO EOR / DO Binary met while another reply is awaited. *)
crossedNever(buf, option, mode) == FALSE

crossed(buf, option, mode) ==
    /\ ~(expectedYes(mode) = do /\ buf[3] = option)
    /\ buf[1] = iac /\ buf[2] = do
    /\ buf[3] \in {eorOption, binaryOption}

(* One pass of checkOptionResponse over the bytes buf that its Read        *)
(* returned: "crossed" stands for the branch that answers the client's DO  *)
(* and calls checkOptionResponse again.                                    *)
checkOptionResponseAnyOption(buf, option, mode) ==
    IF mode \notin {do, will} THEN "ErrTelnetError"
    ELSE IF Len(buf) < 3 \/ buf[1] # iac THEN "ErrTelnetError"
    ELSE IF crossed(buf, option, mode) THEN "crossed"
    ELSE IF buf[2] = expectedNo(mode) THEN "errOptionRejected"
    ELSE IF buf[2] # expectedYes(mode) THEN "ErrTelnetError"
    ELSE "nil"

checkOptionResponse(buf, option, mode) ==
    IF mode \notin {do, will} THEN "ErrTelnetError"
    ELSE IF Len(buf) < 3 \/ buf[1] # iac THEN "ErrTelnetError"
    ELSE IF crossed(buf, option, mode) THEN "crossed"
    ELSE IF buf[2] = expectedNo(mode)
    THEN IF buf[3] # option THEN "ErrTelnetError" ELSE "errOptionRejected"
    ELSE IF buf[2] # expectedYes(mode) THEN "ErrTelnetError"
    ELSE IF buf[3] # option THEN "ErrTelnetError"
    ELSE "nil"

(* getTerminalType over the bytes its Read returned. *)
getTerminalType(buf) ==
    IF Len(buf) < 7 THEN [termtype |-> <<>>, err |-> "ErrTelnetError"]
    ELSE IF \/ buf[1] # iac \/ buf[2] # sb \/ buf[3] # terminalType
            \/ buf[4] # terminalTypeIs
            \/ buf[Len(buf) - 1] # iac \/ buf[Len(buf)] # se
    THEN [termtype |-> <<>>, err |-> "ErrTelnetError"]
    ELSE [termtype |-> SubSeq(buf, 5, Len(buf) - 2), err |-> "nil"]

(* Terminal type names, as their ASCII bytes. *)
IBM_3278_2  == <<73, 66, 77, 45, 51, 50, 55, 56, 45, 50>>
IBM_3278_5  == <<73, 66, 77, 45, 51, 50, 55, 56, 45, 53>>
IBM_DYNAMIC == <<73, 66, 77, 45, 68, 89, 78, 65, 77, 73, 67>>
VT          == <<86, 84>>
UnknownOpen  == <<117, 110, 107, 110, 111, 119, 110, 32, 40>>
UnknownClose == <<41>>

IsDigit(b) == b >= 48 /\ b <= 57

(* modelRegex.FindStringSubmatch: the submatch, or <<>> when no match. *)
modelRegex(t) ==
    IF /\ Len(t) >= 10
       /\ SubSeq(t, 1, 4) = <<73, 66, 77, 45>>
       /\ \A i \in 5..8 : IsDigit(t[i])
       /\ t[9] = 45
       /\ t[10] \in 50..53
    THEN <<t[10]>>
    ELSE <<>>

(* The sizes and the name makeDeviceInfo assumes before it asks. *)
modelDefaults(termtype) ==
    IF modelRegex(termtype) # <<>>
    THEN CASE modelRegex(termtype) = <<50>> -> [rows |-> 24, cols |-> 80, termtype |-> termtype]
           [] modelRegex(termtype) = <<51>> -> [rows |-> 32, cols |-> 80, termtype |-> termtype]
           [] modelRegex(termtype) = <<52>> -> [rows |-> 43, cols |-> 80, termtype |-> termtype]
           [] modelRegex(termtype) = <<53>> -> [rows |-> 27, cols |-> 132, termtype |-> termtype]
    ELSE IF termtype # IBM_DYNAMIC
    THEN [rows |-> 24, cols |-> 80,
          termtype |-> UnknownOpen \o termtype \o UnknownClose]
    ELSE [rows |-> 0, cols |-> 0, termtype |-> termtype]

(* The device probe: Erase/Write Alternate, then Read Partition (Query). *)
EraseWriteAlternate == <<126, 195, 255, 239>>
ReadPartitionQuery  == <<243, 0, 5, 1, 255, 255, 2, 255, 239>>
aidQueryResponse    == 136

ReadNResult(buf, isnil, err, blocked, rest) ==
    [buf |-> buf, isnil |-> isnil, err |-> err, blocked |-> blocked, rest |-> rest]

(* telnetReadN without its special case for a first End-Of-Record. *)
RECURSIVE telnetReadNLoopNoSentinel(_, _, _, _, _)
telnetReadNLoopNoSentinel(s0, n, i, buf0, closed) ==
    Strict(<<s0, buf0>>, LAMBDA a :
        IF i >= n THEN ReadNResult(a[2], FALSE, "nil", FALSE, a[1])
        ELSE Strict(telnetRead(a[1], TRUE, closed), LAMBDA r :
            IF r.blocked THEN ReadNResult(<<>>, TRUE, "nil", TRUE, a[1])
            ELSE IF r.err # "nil" THEN ReadNResult(<<>>, TRUE, r.err, FALSE, r.rest)
            ELSE IF ~r.valid \/ r.isEor
            THEN ReadNResult(<<>>, TRUE, "ErrTelnetError", FALSE, r.rest)
            ELSE telnetReadNLoopNoSentinel(r.rest, n, i + 1, Append(a[2], r.b), closed)))

RECURSIVE telnetReadNLoop(_, _, _, _, _)
telnetReadNLoop(s0, n, i, buf0, closed) ==
    Strict(<<s0, buf0>>, LAMBDA a :
        IF i >= n THEN ReadNResult(a[2], FALSE, "nil", FALSE, a[1])
        ELSE Strict(telnetRead(a[1], TRUE, closed), LAMBDA r :
            IF r.blocked THEN ReadNResult(<<>>, TRUE, "nil", TRUE, a[1])
            ELSE IF r.err # "nil" THEN ReadNResult(<<>>, TRUE, r.err, FALSE, r.rest)
            ELSE IF i = 0 /\ r.isEor THEN ReadNResult(<<>>, TRUE, "nil", FALSE, r.rest)
            ELSE IF ~r.valid \/ r.isEor
            THEN ReadNResult(<<>>, TRUE, "ErrTelnetError", FALSE, r.rest)
            ELSE telnetReadNLoop(r.rest, n, i + 1, Append(a[2], r.b), closed)))

(* make([]byte, n) panics for a negative n. *)
telnetReadN(s, n, closed) ==
    IF n < 0 THEN ReadNResult(<<>>, TRUE, "panic", FALSE, s)
    ELSE telnetReadNLoop(s, n, 0, <<>>, closed)

RECURSIVE limitRows(_, _)
limitRows(rows0, cols) ==
    Strict(rows0, LAMBDA rows :
        IF rows * cols >= 16384 THEN limitRows(rows - 1, cols) ELSE rows)

(* buf is the field without its two length bytes; Go's buf[i] is buf[i+1]. *)
getUsableArea(buf) ==
    IF Len(buf) < 18 \/ buf[1] # 129 \/ buf[2] # 129
    THEN [rows |-> 0, cols |-> 0, err |-> "ErrTelnetError"]
    ELSE IF buf[7] * 256 + buf[8] = 0 \/ buf[5] * 256 + buf[6] = 0
    THEN [rows |-> 0, cols |-> 0, err |-> "ErrUnknownTerminal"]
    ELSE [rows |-> limitRows(buf[7] * 256 + buf[8], buf[5] * 256 + buf[6]),
          cols |-> buf[5] * 256 + buf[6], err |-> "nil"]

(* The descriptor loop of getCodepageID; pos is Go's index.  "hang" is the *)
(* loop that never advances, "panic" an index past the end of buf.         *)
RECURSIVE codepageLoop(_, _, _)
codepageLoop(buf, dl, pos) ==
    IF Len(buf) < pos + dl THEN [cpid |-> 0, err |-> "nil"]
    ELSE IF pos >= Len(buf) THEN [cpid |-> 0, err |-> "panic"]
    ELSE IF buf[pos + 1] # 0
    THEN IF dl = 0 THEN [cpid |-> 0, err |-> "hang"]
         ELSE codepageLoop(buf, dl, pos + dl)
    ELSE [cpid |-> buf[pos + dl - 1] * 256 + buf[pos + dl], err |-> "nil"]

getCodepageID(buf) ==
    IF Len(buf) < 11 \/ buf[1] # 129 \/ buf[2] # 133 THEN [cpid |-> 0, err |-> "nil"]
    ELSE IF (buf[3] \div 2) % 2 # 1 THEN [cpid |-> 0, err |-> "nil"]
    ELSE codepageLoop(buf, buf[11], 11)

getRPQNames(buf) ==
    IF Len(buf) < 16 THEN FALSE
    ELSE SubSeq(buf, 12, 16) = <<167, 243, 242, 247, 240>>

codepageOf(cpid, isx3270) ==
    CASE cpid = 37   -> IF isx3270 THEN "bracket" ELSE "cp037"
      [] cpid = 924  -> "cp924"
      [] cpid = 1047 -> "cp1047"
      [] cpid = 1140 -> "cp1140"
      [] OTHER       -> "nil"

QueryLocals(rest, rows, cols, cpid, isx3270) ==
    [rest |-> rest, rows |-> rows, cols |-> cols, cpid |-> cpid, isx3270 |-> isx3270]

QueryResult(l, err, blocked, rest) ==
    [rows |-> l.rows, cols |-> l.cols, cpid |-> l.cpid, isx3270 |-> l.isx3270,
     err |-> err, blocked |-> blocked, rest |-> rest]

(* What makeDeviceInfo does with one query reply field. *)
queryField(l, buf, rest) ==
    IF Len(buf) = 0 \/ (buf[1] = 129 /\ Len(buf) = 1)
    THEN [l |-> l, err |-> "panic"]
    ELSE IF buf[1] = 129 /\ buf[2] = 129
    THEN Strict(getUsableArea(buf), LAMBDA ua :
             [l |-> QueryLocals(rest, ua.rows, ua.cols, l.cpid, l.isx3270),
              err |-> ua.err])
    ELSE IF buf[1] = 129 /\ buf[2] = 133
    THEN Strict(getCodepageID(buf), LAMBDA cp :
             [l |-> QueryLocals(rest, l.rows, l.cols, cp.cpid, l.isx3270),
              err |-> cp.err])
    ELSE IF buf[1] = 129 /\ buf[2] = 161
    THEN [l |-> QueryLocals(rest, l.rows, l.cols, l.cpid, getRPQNames(buf)),
          err |-> "nil"]
    ELSE [l |-> [l EXCEPT !.rest = rest], err |-> "nil"]

(* The loop of makeDeviceInfo over the query reply fields, up to the EOR. *)
RECURSIVE queryFieldsLoop(_, _)
queryFieldsLoop(l0, closed) ==
    Strict(l0, LAMBDA l :
    Strict(telnetReadN(l.rest, 2, closed), LAMBDA h :
        IF h.blocked THEN QueryResult(l, "nil", TRUE, l.rest)
        ELSE IF h.err # "nil" THEN QueryResult(l, h.err, FALSE, h.rest)
        ELSE IF h.isnil THEN QueryResult(l, "nil", FALSE, h.rest)
        ELSE Strict(telnetReadN(h.rest, h.buf[1] * 256 + h.buf[2] - 2, closed), LAMBDA f :
            IF f.blocked THEN QueryResult(l, "nil", TRUE, l.rest)
            ELSE IF f.err # "nil" THEN QueryResult(l, f.err, FALSE, f.rest)
            ELSE IF f.isnil THEN QueryResult(l, "ErrTelnetError", FALSE, f.rest)
            ELSE Strict(queryField(l, f.buf, f.rest), LAMBDA q :
                IF q.err # "nil" THEN QueryResult(l, q.err, FALSE, f.rest)
                ELSE queryFieldsLoop(q.l, closed)))))

-----------------------------------------------------------------------------
(* The screen writer.  A Field is screen.go's Field struct: Content is a   *)
(* string, Name a field name with "" for none.  A values map takes names   *)
(* to strings.                                                             *)

DefaultColor == 0
Red == 242
DefaultHighlight == 0

(* The substitute byte of the code page. *)
esub == 63

(* Unicode -> CP1047 EBCDIC, the entries of the model's characters. *)
u2e(r) ==
    CASE r = 32 -> 64
      [] r = 65 -> 193
      [] r = 66 -> 194
      [] r = 168 -> 187
      [] OTHER  -> esub

(* The encoder the writer hands the content to. *)
RECURSIVE a2e(_)
a2e(content0) ==
    Strict(content0, LAMBDA content :
        IF content = <<>> THEN <<>>
        ELSE <<u2e(Head(content))>> \o a2e(Tail(content)))

(* internal/codepage: Encode.  A Go string is modelled by its units in    *)
(* order: a unit is a Unicode scalar, or Malformed for a byte that is not  *)
(* the start of a well-formed UTF-8 sequence.                              *)
Malformed == -1

(* utf8.RuneError, U+FFFD. *)
RuneError == 65533

(* utf8.DecodeRuneInString on the first unit of the string. *)
DecodeRuneInString(u) == IF u = Malformed THEN RuneError ELSE u

(* The length of the u2e array: code points 0x00-0xFF. *)
lenu2e == 256

(* highu2e of CP1047: no code point above 0xFF. *)
highu2e == EmptyMap

(* unicodeToCP310, the entries of the model's code points: U+25CA, U+22C4  *)
(* and U+25C6 are 0x70, U+00A8 is 0x72, U+207D is 0xC1, U+207A is 0xC2.    *)
u2ge ==
    (9674 :> 112) @@ (8900 :> 112) @@ (9670 :> 112) @@ (168 :> 114)
        @@ (8317 :> 193) @@ (8314 :> 194)

(* The bytes Encode appends for the rune r. *)
encodeRune(r) ==
    IF r < lenu2e THEN <<u2e(r)>>
    ELSE IF r \in DOMAIN highu2e THEN <<highu2e[r]>>
    ELSE IF r \in DOMAIN u2ge THEN <<ge, u2ge[r]>>
    ELSE <<esub>>

RECURSIVE cpEncodeLoop(_, _)
cpEncodeLoop(s0, out0) ==
    Strict(<<s0, out0>>, LAMBDA a :
        IF a[1] = <<>> THEN a[2]
        ELSE IF DecodeRuneInString(Head(a[1])) = RuneError THEN a[2]
        ELSE cpEncodeLoop(Tail(a[1]),
                          a[2] \o encodeRune(DecodeRuneInString(Head(a[1])))))

(* codepage.Encode. *)
cpEncode(s) == cpEncodeLoop(s, <<>>)

sba(row, col, cols) == <<SBA>> \o getpos(row, col, cols)

sfAttribute(write, intense, hidden, skip, numeric) ==
    LET prot == IF ~write
                THEN 32 + (IF skip THEN 16 ELSE 0)
                ELSE 1 + (IF numeric THEN 16 ELSE 0)
        attribute == prot + (IF intense \/ hidden THEN 8 ELSE 0)
                          + (IF hidden THEN 4 ELSE 0)
    IN  codes[attribute + 1]

buildField(f) ==
    IF f.Color = DefaultColor /\ f.Highlighting = DefaultHighlight
    THEN <<SF, sfAttribute(f.Write, f.Intense, f.Hidden, f.Autoskip, f.NumericOnly)>>
    ELSE LET paramCount == 1 + (IF f.Color # DefaultColor THEN 1 ELSE 0)
                             + (IF f.Highlighting # DefaultHighlight THEN 1 ELSE 0)
         IN  <<SFE, paramCount, 192,
               sfAttribute(f.Write, f.Intense, f.Hidden, f.Autoskip, f.NumericOnly)>>
             \o (IF f.Highlighting # DefaultHighlight THEN <<65, f.Highlighting>> ELSE <<>>)
             \o (IF f.Color # DefaultColor THEN <<66, f.Color>> ELSE <<>>)

ic(row, col, cols) == sba(row, col, cols) \o <<IC>>

(* The dimensions showScreenInternal writes for: 24x80, or the alternate   *)
(* dimensions of the DevInfo.                                              *)
screenRows(dev) == IF dev.nil THEN 24 ELSE dev.rows
screenCols(dev) == IF dev.nil THEN 80 ELSE dev.cols

(* A position test that lets every field through. *)
validPositionAny(fld, rows, cols) == TRUE

(* The position test of the field loop: FALSE for a field it skips. *)
validPosition(fld, rows, cols) ==
    ~(fld.Row < 0 \/ fld.Row > rows - 1 \/ fld.Col < 0 \/ fld.Col > cols - 1)

(* A key that is the address of the attribute byte itself. *)
fieldmapKeyAtAttribute(fld, cols) == fld.Row * cols + fld.Col

(* The fieldmap key of a writable field: bufaddr + 1. *)
fieldmapKey(fld, cols) == fld.Row * cols + fld.Col + 1

(* A field that always emits its own Content. *)
fieldContentOwn(fld, values) == fld.Content

(* fld.Content, unless the field is named and appears in the values map. *)
fieldContent(fld, values) ==
    IF fld.Name # "" /\ fld.Name \in DOMAIN values
    THEN values[fld.Name] ELSE fld.Content

(* The field loop of showScreenInternal; acc is [b, fm], the buffer and    *)
(* the fieldmap so far.                                                    *)
RECURSIVE screenFieldsLoop(_, _, _, _, _)
screenFieldsLoop(screen0, values, rows, cols, acc0) ==
    Strict(<<screen0, acc0>>, LAMBDA a :
        IF a[1] = <<>> THEN a[2]
        ELSE IF ~validPosition(Head(a[1]), rows, cols)
        THEN screenFieldsLoop(Tail(a[1]), values, rows, cols, a[2])
        ELSE screenFieldsLoop(Tail(a[1]), values, rows, cols,
                 [b  |-> a[2].b \o sba(Head(a[1]).Row, Head(a[1]).Col, cols)
                                \o buildField(Head(a[1]))
                                \o a2e(fieldContent(Head(a[1]), values)),
                  fm |-> IF Head(a[1]).Write
                         THEN MapPut(a[2].fm, fieldmapKey(Head(a[1]), cols),
                                     Head(a[1]).Name)
                         ELSE a[2].fm]))

(* showScreenInternal up to its conn.Write: the fieldmap, and the bytes b  *)
(* the one Write is called with.                                           *)
(* The write control character, always with the Reset MDT bit. *)
wccAlwaysReset(clear) == 195

(* The write control character. *)
wccOf(clear) == IF clear THEN 195 ELSE 194

(* A cursor coordinate taken as the caller gave it. *)
cursorUncorrected(v, size) == v

(* The cursor coordinate v on a screen of size rows or columns: an         *)
(* out-of-bounds value is corrected to 0.                                  *)
cursorCorrected(v, size) == IF v < 0 \/ v > size - 1 THEN 0 ELSE v

showScreenInternal(screen, values, cursorRow, cursorCol, clear, dev) ==
    LET rows == screenRows(dev)
        cols == screenCols(dev)
        cmd  == IF clear
                THEN IF ~(rows = 24 /\ cols = 80) THEN 126 ELSE 245
                ELSE 241
        wcc  == wccOf(clear)
        row  == cursorCorrected(cursorRow, rows)
        col  == cursorCorrected(cursorCol, cols)
    IN  Strict(screenFieldsLoop(screen, values, rows, cols,
                                [b |-> <<cmd, wcc>>, fm |-> EmptyMap]),
               LAMBDA r :
                   [fm |-> r.fm,
                    b  |-> r.b \o (IF clear THEN ic(row, col, cols) ELSE <<>>)
                               \o <<255, 239>>])

-----
(* Bounds of the codec specification. *)
MaxRow == 205

(* The screen widths tried: the default 80, and the 132 of a model 5. *)
ColsSet == {80, 132}

(* Bounds of the framer specification. *)
MaxStream == 4

(* Bounds of the response-reader specification: the number of tokens that *)
(* follow the cursor address in a record.                                  *)
MaxBody == 4

(* Bytes a framer input is drawn from: the telnet command bytes the framer *)
(* looks at, an option verb with an option byte, a plain data byte and the *)
(* byte 0xF1.                                                              *)
FramerBytes == {iac, sb, se, eor, do, eorOption, 193, 241}

-----------------------------------------------------------------------------
(* Variables at rest: a specification about one component leaves the       *)
(* other components where these put them.                                  *)

IdleCodec ==
    /\ crow = 0 /\ ccol = 0 /\ ccols = 80
    /\ cenc = <<>> /\ cdec = <<>> /\ cpc = "idle"

IdleFramer ==
    /\ fin = <<>> /\ frest = <<>> /\ fgot = <<>> /\ feors = 0 /\ fpc = "idle"
    /\ flast = <<>>

IdleResp ==
    /\ raid = 0 /\ rcur = <<>> /\ rbody = <<>> /\ rfm = EmptyMap /\ rdev = NilDev
    /\ rin = <<>> /\ rres = <<>> /\ rpc = "idle"
    /\ rcut = "none" /\ rnext = <<>>

IdleNeg ==
    /\ npc = "idle" /\ ninb = <<>> /\ nclosed = FALSE /\ nlog = <<>>
    /\ sentWillEOR = FALSE /\ sentWillBin = FALSE /\ devtype = <<>> /\ nres = <<>>
    /\ nsent = 0 /\ nwleft = -1

IdleWriter ==
    /\ wscreen = <<>> /\ wvalues = EmptyMap /\ wcursor = <<0, 0>> /\ wclear = FALSE
    /\ wdev = NilDev /\ wbroken = FALSE /\ wfm = EmptyMap /\ werr = "nil"
    /\ wwire = <<>> /\ wpc = "idle"

IdleKeys == khist = <<>> /\ ksent = <<>>

IdleSession ==
    /\ sscreen = <<>> /\ sopts = <<>> /\ spc = <<>> /\ sfm = <<>> /\ sres = <<>>
    /\ slog = <<>> /\ sinb = <<>> /\ sclosed = FALSE /\ term = <<>> /\ tsent = <<>>
    /\ uhist = <<>> /\ nupd = 0 /\ swire = <<>>

IdleCp == einput = <<>> /\ eout = <<>> /\ eback = <<>> /\ epc = "idle"

IdleTx ==
    /\ xinit = <<>> /\ xnext = "nil" /\ xdata = 0 /\ xhist = <<>> /\ xret = "nil"
    /\ xpc = "idle"

IdleHandle ==
    /\ hargs = <<>> /\ myValues = EmptyMap /\ hshown = <<>> /\ hresp = <<>>
    /\ hret = <<>> /\ hpc = "idle"

IdleReadN ==
    /\ qrest = <<>> /\ qfrom = <<>> /\ qn = 0 /\ qres = <<>> /\ qpc = "idle"

IdleProbe ==
    /\ pfields = <<>> /\ pres = <<>> /\ ppc = "idle"

-----------------------------------------------------------------------------
(* The addressing codec: getpos, then the bytes read back as readPosition  *)
(* reads them (through telnetRead, which undoes the doubling of 0xFF).     *)

InitCodec ==
    /\ crow \in 0..MaxRow
    /\ ccols \in ColsSet
    /\ ccol \in 0..(ccols - 1)
    /\ cenc = <<>>
    /\ cdec = <<>>
    /\ cpc = "input"

Encode ==
    /\ cpc = "input"
    /\ cenc' = getpos(crow, ccol, ccols)
    /\ cpc' = "encoded"
    /\ UNCHANGED <<crow, ccol, ccols, cdec>>

DecodeBack ==
    /\ cpc = "encoded"
    /\ cdec' = readPosition(cenc, ccols, TRUE)
    /\ cpc' = "decoded"
    /\ UNCHANGED <<crow, ccol, ccols, cenc>>

NextCodec ==
    \/ Encode /\ UNCHANGED notCodec
    \/ DecodeBack /\ UNCHANGED notCodec

-----------------------------------------------------------------------------
(* The byte framer: telnetRead called again and again on one input stream, *)
(* until a Read fails at the end of the stream.                            *)

InitFramer ==
    /\ fin \in SeqsUpTo(FramerBytes, MaxStream)
    /\ frest = fin
    /\ fgot = <<>>
    /\ feors = 0
    /\ fpc = "reading"
    /\ flast = <<>>

FramerRead(passEOR) ==
    /\ fpc = "reading"
    /\ \E r \in {telnetRead(frest, passEOR, TRUE)} :
           /\ frest' = r.rest
           /\ fgot' = IF r.valid THEN Append(fgot, r.b) ELSE fgot
           /\ feors' = IF r.isEor THEN feors + 1 ELSE feors
           /\ fpc' = IF r.err # "nil" THEN "failed" ELSE "reading"
           /\ flast' = [passEOR |-> passEOR, b |-> r.b, valid |-> r.valid,
                        isEor |-> r.isEor, err |-> r.err]
    /\ UNCHANGED fin

NextFramer ==
    \/ FramerRead(TRUE) /\ UNCHANGED notFramer
    \/ FramerRead(FALSE) /\ UNCHANGED notFramer


-----------------------------------------------------------------------------
(* The response reader on one inbound record.  The client sends the AID,   *)
(* the cursor address, then tokens: an SBA order with its two address      *)
(* bytes, or a data byte; then IAC EOR.  As telnet requires, the client    *)
(* doubles every 0xFF of the record on the wire.                           *)

(* AIDs the client sends. *)
RespAIDs == {AIDEnter, AIDClear}

(* Address byte pairs the client sends: 16 and 919 in 12-bit form          *)
(* ({0x40,0x50}, {0x4E,0xD7}) and 4351 in 14-bit form ({0x10,0xFF}).       *)
AddrPairs == {<<64, 80>>, <<78, 215>>, <<16, 255>>}

(* Cursor addresses the client reports: 919 and 4351. *)
CursorPairs == {<<78, 215>>, <<16, 255>>}

(* Field data bytes the client sends: EBCDIC A, space, and graphic escape. *)
DataBytes == {193, 64, ge}

Tokens ==
    {<<"sba", p[1], p[2]>> : p \in AddrPairs} \cup {<<"d", b, 0>> : b \in DataBytes}

TokenBytes(t) == IF t[1] = "sba" THEN <<SBA, t[2], t[3]>> ELSE <<t[2]>>

RECURSIVE BodyBytes(_)
BodyBytes(body0) ==
    Strict(body0, LAMBDA body :
        IF body = <<>> THEN <<>> ELSE TokenBytes(Head(body)) \o BodyBytes(Tail(body)))

RECURSIVE EscapeIAC(_)
EscapeIAC(bs0) ==
    Strict(bs0, LAMBDA bs :
        IF bs = <<>> THEN <<>>
        ELSE IF Head(bs) = 255
        THEN <<255, 255>> \o EscapeIAC(Tail(bs))
        ELSE <<Head(bs)>> \o EscapeIAC(Tail(bs)))

RecordWire(aid, cur, body) ==
    <<aid>> \o EscapeIAC(cur) \o EscapeIAC(BodyBytes(body)) \o <<255, 239>>

FieldMaps == {EmptyMap, 16 :> "x", (16 :> "x") @@ (4351 :> "y")}

Devs == {NilDev, DevOf(27, 132, "IBM-3278-5", "nil")}

InitResp ==
    /\ raid \in RespAIDs
    /\ rcur \in CursorPairs
    /\ rbody \in SeqsUpTo(Tokens, MaxBody)
    /\ rfm \in FieldMaps
    /\ rdev \in Devs
    /\ rin = RecordWire(raid, rcur, rbody)
    /\ rres = <<>>
    /\ rpc = "waiting"
    /\ rcut = "none"
    /\ rnext = <<>>

ReadResponseCall ==
    /\ rpc = "waiting"
    /\ \E r \in {readResponse(rin, rfm, rdev, TRUE)} :
           /\ rres' = [resp |-> r.resp, err |-> r.err]
           /\ rin' = r.rest
    /\ rpc' = "returned"
    /\ UNCHANGED <<raid, rcur, rbody, rfm, rdev, rcut, rnext>>

NextResp ==
    \/ ReadResponseCall /\ UNCHANGED notResp

-----------------------------------------------------------------------------
(* The response reader on a record that its End-Of-Record cuts short: the  *)
(* EOR arrives where the second, or the first, byte of the cursor address  *)
(* or of the address of an SBA order is due.  A later record follows on   *)
(* the connection.                                                         *)

Cuts == {"cursor0", "cursor1", "sba0", "sba1"}

(* The bytes of the record up to and with its early EOR. *)
CutWire(aid, cur, body, cut) ==
    CASE cut = "cursor0" -> <<aid, 255, 239>>
      [] cut = "cursor1" -> <<aid, cur[1], 255, 239>>
      [] cut = "sba0" -> <<aid>> \o EscapeIAC(cur) \o EscapeIAC(BodyBytes(body))
                             \o <<SBA, 255, 239>>
      [] cut = "sba1" -> <<aid>> \o EscapeIAC(cur) \o EscapeIAC(BodyBytes(body))
                             \o <<SBA, 64, 255, 239>>

(* What the client sends after the cut record: a whole record. *)
LaterRecords ==
    {RecordWire(AIDEnter, <<64, 80>>, <<>>),
     RecordWire(AIDEnter, <<78, 215>>, <<<<"sba", 64, 80>>, <<"d", 193, 0>>>>)}

InitCut ==
    /\ raid = AIDEnter
    /\ rcur \in CursorPairs
    /\ rbody \in SeqsUpTo(Tokens, 1)
    /\ rfm \in FieldMaps
    /\ rdev \in Devs
    /\ rcut \in Cuts
    /\ rnext \in LaterRecords
    /\ rin = CutWire(raid, rcur, rbody, rcut) \o rnext
    /\ rres = <<>>
    /\ rpc = "waiting"

NextCut ==
    \/ ReadResponseCall /\ UNCHANGED notResp

-----------------------------------------------------------------------------------------------------------------------------------------------------
(* NegotiateTelnet on one connection, against a client that sends chunks   *)
(* of ClientChunks and may close the connection.  NegotiateTelnet sees of  *)
(* the client only what its Reads return, in order, and whether a Read met *)
(* its deadline with nothing to return; so a chunk is taken to arrive when *)
(* the server's Read has nothing left to return.  Each server action is    *)
(* one Read together with the code that runs up to the next Read.  nlog    *)
(* records, in order, what each Read returned ("r", <<>> for a deadline)   *)
(* and what each conn.Write wrote ("w"), with the line of the call; a      *)
(* chunk that the draining loop reads and ignores leaves no entry.         *)

Wr(bytes, line) == [k |-> "w", b |-> bytes, at |-> line]
Rd(bytes, line) == [k |-> "r", b |-> bytes, at |-> line]

(* A conn.Write that returned an error. *)
WrFailed(bytes, line) == [k |-> "wfail", b |-> bytes, at |-> line]

(* Every Write of the connection succeeds. *)
NoFailure == -1

(* The conn.Write calls whose error is looked at. *)
WriteChecked(line) == line \in {95, 334, 343}

(* The conn.Write calls ws in turn, left of which succeed: what they leave *)
(* in the log and whether one whose error is looked at failed, which ends  *)
(* the function.                                                           *)
RECURSIVE connWriteLoop(_, _, _)
connWriteLoop(ws, left, acc) ==
    IF ws = <<>> THEN [log |-> acc, left |-> left, err |-> FALSE]
    ELSE IF left # 0
    THEN connWriteLoop(Tail(ws), IF left > 0 THEN left - 1 ELSE left, Append(acc, Head(ws)))
    ELSE IF WriteChecked(Head(ws).at)
    THEN [log |-> Append(acc, WrFailed(Head(ws).b, Head(ws).at)), left |-> left, err |-> TRUE]
    ELSE connWriteLoop(Tail(ws), left, Append(acc, WrFailed(Head(ws).b, Head(ws).at)))

connWrite(ws, left) == connWriteLoop(ws, left, <<>>)

OptionPhases == {"optTT", "optEOR", "optBin", "willEOR", "willBin"}

PhaseOption(pc) ==
    CASE pc = "optTT"                -> terminalType
      [] pc \in {"optEOR", "willEOR"} -> eorOption
      [] OTHER                        -> binaryOption

PhaseMode(pc) == IF pc \in {"willEOR", "willBin"} THEN will ELSE do

(* makeDeviceInfo up to its first Read. *)
ProbeWrites ==
    [pc |-> "aid", w |-> <<Wr(EraseWriteAlternate, 334), Wr(ReadPartitionQuery, 343)>>]

(* NegotiateTelnet after the EOR exchange of its WILL phase. *)
AfterWillEOR(sBin) ==
    IF ~sBin
    THEN [pc |-> "willBin", w |-> <<Wr(<<iac, will, binaryOption>>, 178)>>]
    ELSE ProbeWrites

(* NegotiateTelnet after the loop that drains the queue. *)
AfterDrainProbeFirst(sEOR, sBin) == ProbeWrites

AfterDrain(sEOR, sBin) ==
    IF ~sEOR
    THEN [pc |-> "willEOR", w |-> <<Wr(<<iac, will, eorOption>>, 166)>>]
    ELSE AfterWillEOR(sBin)

(* NegotiateTelnet after checkOptionResponse returned nil in phase pc. *)
AfterOption(pc, sBin) ==
    CASE pc = "optTT" ->
            [pc |-> "getType",
             w |-> <<Wr(<<iac, sb, terminalType, terminalTypeSend, iac, se>>, 107)>>]
      [] pc = "optEOR"  -> [pc |-> "optBin", w |-> <<Wr(<<iac, do, binaryOption>>, 126)>>]
      [] pc = "optBin"  -> [pc |-> "drain", w |-> <<>>]
      [] pc = "willEOR" -> AfterWillEOR(sBin)
      [] pc = "willBin" -> ProbeWrites

NegReturn(dev, err) ==
    /\ npc' = (IF err = "panic" THEN "panicked" ELSE IF err = "hang" THEN "hung" ELSE "done")
    /\ nres' = [dev |-> dev, err |-> err]

(* The code from a Read to the next one: what was read, then the Writes of *)
(* next.w, and on to next.pc unless a Write's error ends the function.     *)
ReadThenWrite(reads, next) ==
    \E w \in {connWrite(next.w, nwleft)} :
        /\ nlog' = nlog \o reads \o w.log
        /\ nwleft' = w.left
        /\ IF w.err THEN NegReturn(NilDev, "io")
           ELSE npc' = next.pc /\ nres' = nres

(* ---- bounds and the client's alphabet ---- *)

(* The client sends at most MaxSends chunks in one negotiation. *)
MaxSends == 7

OptionReplies ==
    {<<iac, v, o>> : v \in {will, wont, do, dont},
                     o \in {terminalType, eorOption, binaryOption}}

MalformedReplies == {<<iac, will>>, <<will, eorOption, binaryOption>>}

(* Two client segments that one Read finds joined. *)
JoinedReplies == {<<iac, do, eorOption, iac, will, binaryOption>>}

TypeReply(t) == <<iac, sb, terminalType, terminalTypeIs>> \o t \o <<iac, se>>

TermTypes == {IBM_3278_2, IBM_3278_5, IBM_DYNAMIC, VT}

MalformedTypeReplies ==
    {<<iac, sb, terminalType, terminalTypeIs, iac, se>>,
     <<iac, sb, terminalType, terminalTypeSend>> \o VT \o <<iac, se>>,
     <<iac, sb, terminalType, terminalTypeIs>> \o VT \o <<iac, eor>>}

(* A Query Reply (Usable Area) field of 20 bytes, its length included. *)
UsableArea(rows, cols) ==
    <<0, 20, 129, 129, 1, 0, cols \div 256, cols % 256, rows \div 256, rows % 256,
      0, 0, 0, 0, 0, 0, 0, 0, 0, 0>>

(* A Query Reply (Character Sets) field with one descriptor of 7 bytes. *)
CharacterSets(cpid) ==
    <<0, 20, 129, 133, 2, 0, 0, 0, 0, 0, 0, 0, 7,
      0, 0, 0, 0, 0, cpid \div 256, cpid % 256>>

(* A Query Reply (RPQ Names) field of 18 bytes naming "x3270" in EBCDIC. *)
RPQNamesX3270 ==
    <<0, 18, 129, 161, 0, 0, 0, 0, 0, 0, 0, 0, 0, 167, 243, 242, 247, 240>>

QueryReply(fields) == <<aidQueryResponse>> \o fields \o <<iac, eor>>

QueryReplies ==
    {QueryReply(<<>>),
     QueryReply(UsableArea(24, 80)),
     QueryReply(UsableArea(43, 80) \o CharacterSets(1047)),
     QueryReply(UsableArea(2, 16384)),
     QueryReply(CharacterSets(37)),
     QueryReply(CharacterSets(37) \o RPQNamesX3270),
     QueryReply(RPQNamesX3270 \o CharacterSets(37)),
     QueryReply(CharacterSets(273)),
     <<aidQueryResponse>>,
     <<iac, eor>>,
     <<AIDEnter>>}

ClientChunks ==
    OptionReplies \cup MalformedReplies \cup JoinedReplies
        \cup {TypeReply(t) : t \in TermTypes}
        \cup MalformedTypeReplies \cup QueryReplies

InitNeg ==
    /\ npc = "start"
    /\ ninb = <<>>
    /\ nclosed = FALSE
    /\ nlog = <<>>
    /\ sentWillEOR = FALSE
    /\ sentWillBin = FALSE
    /\ devtype = <<>>
    /\ nres = <<>>
    /\ nsent = 0
    /\ nwleft = NoFailure

(* makeDeviceInfo's loop over the query reply, on the bytes that arrived. *)
QueryOutcome ==
    queryFieldsLoop(QueryLocals(Flatten(ninb), modelDefaults(devtype).rows,
                                modelDefaults(devtype).cols, 0, FALSE), nclosed)

(* The server's Read has nothing to return. *)
ServerWaits ==
    \/ npc \in OptionPhases \cup {"getType", "drain", "aid"} /\ ninb = <<>>
    \/ npc = "fields" /\ QueryOutcome.blocked

ClientSend ==
    /\ ~nclosed
    /\ nsent < MaxSends
    /\ ServerWaits
    /\ \E c \in ClientChunks : ninb' = Append(ninb, c)
    /\ nsent' = nsent + 1
    /\ UNCHANGED <<npc, nclosed, nlog, sentWillEOR, sentWillBin, devtype, nres, nwleft>>

ClientClose ==
    /\ ~nclosed
    /\ ServerWaits
    /\ nclosed' = TRUE
    /\ UNCHANGED <<npc, ninb, nlog, sentWillEOR, sentWillBin, devtype, nres, nsent, nwleft>>

NegotiateStart ==
    /\ npc = "start"
    /\ ReadThenWrite(<<>>, [pc |-> "optTT", w |-> <<Wr(<<iac, do, terminalType>>, 95)>>])
    /\ UNCHANGED <<ninb, nclosed, sentWillEOR, sentWillBin, devtype, nsent>>

(* A Read on a connection the client closed, nothing left unread. *)
ReadFails ==
    /\ npc \in OptionPhases \cup {"getType", "drain", "aid"}
    /\ ninb = <<>>
    /\ nclosed
    /\ NegReturn(NilDev, "io")
    /\ UNCHANGED <<ninb, nclosed, nlog, sentWillEOR, sentWillBin, devtype, nsent, nwleft>>

OptionCrossed ==
    /\ npc \in OptionPhases
    /\ ninb # <<>>
    /\ \E rd \in {ConnRead(ninb, 3)} :
        /\ checkOptionResponse(rd.data, PhaseOption(npc), PhaseMode(npc)) = "crossed"
        /\ ninb' = rd.rest
        /\ ReadThenWrite(<<Rd(rd.data, 218)>>,
                         [pc |-> npc,
                          w |-> <<Wr(<<iac, will, rd.data[3]>>,
                                     IF rd.data[3] = eorOption THEN 234 ELSE 238)>>])
        /\ sentWillEOR' = (sentWillEOR \/ rd.data[3] = eorOption)
        /\ sentWillBin' = (sentWillBin \/ rd.data[3] = binaryOption)
    /\ UNCHANGED <<nclosed, devtype, nsent>>

OptionAccepted ==
    /\ npc \in OptionPhases
    /\ ninb # <<>>
    /\ \E rd \in {ConnRead(ninb, 3)} :
        /\ checkOptionResponse(rd.data, PhaseOption(npc), PhaseMode(npc)) = "nil"
        /\ ninb' = rd.rest
        /\ ReadThenWrite(<<Rd(rd.data, 218)>>, AfterOption(npc, sentWillBin))
    /\ UNCHANGED <<nclosed, sentWillEOR, sentWillBin, devtype, nsent>>

OptionRefused ==
    /\ npc \in OptionPhases
    /\ ninb # <<>>
    /\ \E rd \in {ConnRead(ninb, 3)} :
        /\ checkOptionResponse(rd.data, PhaseOption(npc), PhaseMode(npc))
               \in {"errOptionRejected", "ErrTelnetError"}
        /\ ninb' = rd.rest
        /\ nlog' = Append(nlog, Rd(rd.data, 218))
        /\ NegReturn(NilDev, "ErrNo3270")
    /\ UNCHANGED <<nclosed, sentWillEOR, sentWillBin, devtype, nsent, nwleft>>

TerminalTypeRead ==
    /\ npc = "getType"
    /\ ninb # <<>>
    /\ \E rd \in {ConnRead(ninb, 100)} : \E t \in {getTerminalType(rd.data)} :
        /\ ninb' = rd.rest
        /\ IF t.err = "nil"
           THEN /\ devtype' = t.termtype
                /\ ReadThenWrite(<<Rd(rd.data, 270)>>,
                                 [pc |-> "optEOR", w |-> <<Wr(<<iac, do, eorOption>>, 116)>>])
           ELSE /\ nlog' = Append(nlog, Rd(rd.data, 270))
                /\ NegReturn(NilDev, "ErrNo3270")
                /\ UNCHANGED <<devtype, nwleft>>
    /\ UNCHANGED <<nclosed, sentWillEOR, sentWillBin, nsent>>

DrainRead ==
    /\ npc = "drain"
    /\ ninb # <<>>
    /\ \E rd \in {ConnRead(ninb, 3)} :
        /\ ninb' = rd.rest
        /\ IF Len(rd.data) = 3 /\ rd.data \in {<<iac, do, eorOption>>, <<iac, do, binaryOption>>}
           THEN /\ ReadThenWrite(<<Rd(rd.data, 141)>>,
                                 [pc |-> npc,
                                  w |-> <<Wr(<<iac, will, rd.data[3]>>,
                                             IF rd.data[3] = eorOption THEN 153 ELSE 156)>>])
                /\ sentWillEOR' = (sentWillEOR \/ rd.data[3] = eorOption)
                /\ sentWillBin' = (sentWillBin \/ rd.data[3] = binaryOption)
           ELSE UNCHANGED <<npc, nres, nlog, sentWillEOR, sentWillBin, nwleft>>
    /\ UNCHANGED <<nclosed, devtype, nsent>>

(* The 10 ms read deadline passes with nothing to read. *)
DrainTimeout ==
    /\ npc = "drain"
    /\ ninb = <<>>
    /\ ~nclosed
    /\ ReadThenWrite(<<Rd(<<>>, 141)>>, AfterDrain(sentWillEOR, sentWillBin))
    /\ UNCHANGED <<ninb, nclosed, sentWillEOR, sentWillBin, devtype, nsent>>

AidRead ==
    /\ npc = "aid"
    /\ ninb # <<>>
    /\ \E rd \in {ConnRead(ninb, 1)} :
        /\ ninb' = rd.rest
        /\ nlog' = Append(nlog, Rd(rd.data, 352))
        /\ IF rd.data[1] # aidQueryResponse
           THEN NegReturn(NilDev, "ErrTelnetError")
           ELSE npc' = "fields" /\ UNCHANGED nres
    /\ UNCHANGED <<nclosed, sentWillEOR, sentWillBin, devtype, nsent, nwleft>>

(* The 3 s read deadline passes with nothing to read. *)
AidTimeout ==
    /\ npc = "aid"
    /\ ninb = <<>>
    /\ ~nclosed
    /\ nlog' = Append(nlog, Rd(<<>>, 352))
    /\ NegReturn(DevOf(24, 80, modelDefaults(devtype).termtype, "nil"), "nil")
    /\ UNCHANGED <<ninb, nclosed, sentWillEOR, sentWillBin, devtype, nsent, nwleft>>

(* The query reply fields, read once the bytes up to the EOR (or the end   *)
(* of a closed connection) are there.                                      *)
QueryFieldsRead ==
    /\ npc = "fields"
    /\ \E d \in {modelDefaults(devtype)} : \E q \in {QueryOutcome} :
        /\ ~q.blocked
        /\ ninb' = Unread(q.rest)
        /\ nlog' = Append(nlog, Rd(SubSeq(Flatten(ninb), 1,
                                          Len(Flatten(ninb)) - Len(q.rest)), 372))
        /\ IF q.err = "nil"
           THEN NegReturn(DevOf(q.rows, q.cols, d.termtype,
                                codepageOf(q.cpid, q.isx3270)), "nil")
           ELSE NegReturn(NilDev, q.err)
    /\ UNCHANGED <<nclosed, sentWillEOR, sentWillBin, devtype, nsent, nwleft>>

NextNeg ==
    \/ NegotiateStart /\ UNCHANGED notNeg
    \/ ReadFails /\ UNCHANGED notNeg
    \/ OptionCrossed /\ UNCHANGED notNeg
    \/ OptionAccepted /\ UNCHANGED notNeg
    \/ OptionRefused /\ UNCHANGED notNeg
    \/ TerminalTypeRead /\ UNCHANGED notNeg
    \/ DrainRead /\ UNCHANGED notNeg
    \/ DrainTimeout /\ UNCHANGED notNeg
    \/ AidRead /\ UNCHANGED notNeg
    \/ AidTimeout /\ UNCHANGED notNeg
    \/ QueryFieldsRead /\ UNCHANGED notNeg
    \/ ClientSend /\ UNCHANGED notNeg
    \/ ClientClose /\ UNCHANGED notNeg

(* NegotiateTelnet on a connection whose Writes all succeed, or fail from  *)
(* the first or from the second on while its Reads go on returning what    *)
(* the client sent.                                                        *)
WriteBudgets == {NoFailure, 0, 1}

InitNegBroken ==
    /\ npc = "start"
    /\ ninb = <<>>
    /\ nclosed = FALSE
    /\ nlog = <<>>
    /\ sentWillEOR = FALSE
    /\ sentWillBin = FALSE
    /\ devtype = <<>>
    /\ nres = <<>>
    /\ nsent = 0
    /\ nwleft \in WriteBudgets

-----------------------------------------------------------------------------
(* showScreenInternal called once on a screen, a values map, a cursor      *)
(* position, the clear flag and a DevInfo, on a connection whose Write     *)
(* succeeds or fails.                                                      *)

(* Bound of the screen-writer specification: the number of fields. *)
MaxFields == 3

PlainField ==
    [Row |-> 0, Col |-> 0, Content |-> <<>>, Write |-> FALSE, Autoskip |-> FALSE,
     Intense |-> FALSE, Hidden |-> FALSE, NumericOnly |-> FALSE,
     Color |-> DefaultColor, Highlighting |-> DefaultHighlight,
     Name |-> "", KeepSpaces |-> FALSE]

(* A writable field "x" at the first cell, showing "A". *)
FieldX == [PlainField EXCEPT !.Write = TRUE, !.Name = "x", !.Content = <<65>>]

(* A second writable field at the same cell, named "y", keeping spaces. *)
FieldY == [PlainField EXCEPT !.Write = TRUE, !.Name = "y", !.KeepSpaces = TRUE]

(* A protected, named, red field at that cell. *)
FieldQ == [PlainField EXCEPT !.Name = "q", !.Color = Red, !.Content = <<66>>]

(* A protected intense label on the second row. *)
FieldLabel == [PlainField EXCEPT !.Row = 1, !.Intense = TRUE, !.Content = <<66>>]

(* A writable field at the last cell of a 24x80 screen. *)
FieldZ == [PlainField EXCEPT !.Row = 23, !.Col = 79, !.Write = TRUE, !.Name = "z"]

(* A writable numeric field on row 24: outside 24x80, inside 27x132. *)
FieldW == [PlainField EXCEPT !.Row = 24, !.Col = 5, !.Write = TRUE,
                             !.NumericOnly = TRUE, !.Name = "w"]

(* A writable field above the first row. *)
FieldAbove == [PlainField EXCEPT !.Row = -1, !.Write = TRUE, !.Name = "a",
                                 !.Content = <<65>>]

(* A protected field left of the first column. *)
FieldLeft == [PlainField EXCEPT !.Col = -1, !.Content = <<66>>]

(* A writable field in column 80: outside 24x80, inside 27x132. *)
FieldRight == [PlainField EXCEPT !.Col = 80, !.Write = TRUE, !.Name = "r"]

FieldCatalogue ==
    {FieldX, FieldY, FieldQ, FieldLabel, FieldZ, FieldW, FieldAbove, FieldLeft,
     FieldRight}

(* Values maps: none, one that overrides the content of "x", and one that  *)
(* has the empty string for "x" and an entry under the empty name.         *)
ValueMaps ==
    {EmptyMap, "x" :> <<32, 65, 32>>, ("x" :> <<>>) @@ ("" :> <<65, 66>>)}

(* Cursor positions: one on every screen, one outside every screen. *)
CursorPositions == {<<1, 2>>, <<27, 132>>}

InitWriter ==
    /\ wscreen \in SeqsUpTo(FieldCatalogue, MaxFields)
    /\ wvalues \in ValueMaps
    /\ wcursor \in CursorPositions
    /\ wclear \in BOOLEAN
    /\ wdev \in Devs
    /\ wbroken \in BOOLEAN
    /\ wfm = EmptyMap /\ werr = "nil" /\ wwire = <<>>
    /\ wpc = "start"

(* showScreenInternal, its Write succeeding. *)
WriteScreen ==
    /\ wpc = "start" /\ ~wbroken
    /\ \E r \in {showScreenInternal(wscreen, wvalues, wcursor[1], wcursor[2],
                                    wclear, wdev)} :
           /\ wfm' = r.fm
           /\ wwire' = Append(wwire, r.b)
    /\ werr' = "nil"
    /\ wpc' = "written"
    /\ UNCHANGED <<wscreen, wvalues, wcursor, wclear, wdev, wbroken>>

(* showScreenInternal, its Write failing: it returns a nil fieldmap and    *)
(* the error.                                                              *)
WriteScreenFails ==
    /\ wpc = "start" /\ wbroken
    /\ wfm' = EmptyMap
    /\ werr' = "io"
    /\ wpc' = "failed"
    /\ UNCHANGED <<wscreen, wvalues, wcursor, wclear, wdev, wbroken, wwire>>

NextWriter ==
    \/ WriteScreen /\ UNCHANGED notWriter
    \/ WriteScreenFails /\ UNCHANGED notWriter

(* showScreenInternal called once on screens of every size, with cursor    *)
(* coordinates inside and outside of them and a colour byte 0xFF.          *)

(* A protected field whose Color is the byte 0xFF. *)
FieldFF == [PlainField EXCEPT !.Row = 2, !.Color = 255, !.Content = <<65>>]

(* A writable field at address 4351 = 0x10FF of a screen 160 columns wide. *)
FieldFar == [PlainField EXCEPT !.Row = 27, !.Col = 31, !.Write = TRUE, !.Name = "f"]

SizedFields == {FieldX, FieldQ, FieldFF, FieldFar}

(* No DevInfo, and DevInfos of 24x80, 27x132 and 62x160. *)
SizedDevs == Devs \cup {DevOf(24, 80, "IBM-3278-2", "nil"), DevOf(62, 160, "IBM-DYNAMIC", "nil")}

(* Cursor positions: inside every screen; outside every screen but the     *)
(* largest; a row or a column that no screen has; address 0x10FF of the    *)
(* largest screen.                                                         *)
SizedCursors == {<<1, 2>>, <<27, 132>>, <<-1, 2>>, <<1, 200>>, <<27, 31>>}

InitWriterSized ==
    /\ wscreen \in SeqsUpTo(SizedFields, MaxFields)
    /\ wvalues = EmptyMap
    /\ wcursor \in SizedCursors
    /\ wclear \in BOOLEAN
    /\ wdev \in SizedDevs
    /\ wbroken \in BOOLEAN
    /\ wfm = EmptyMap /\ werr = "nil" /\ wwire = <<>>
    /\ wpc = "start"

-----------------------------------------------------------------------------
(* ShowScreenOpts.  ScreenOpts is [AltScreen, NoResponse, NoClear,         *)
(* CursorRow, CursorCol, PostSendCallback]; PostSendCallback is "nil", or  *)
(* what the caller's function returns when called: "ok" or "err".          *)

(* unicode.IsSpace on the Latin-1 range. *)
IsSpace(r) == r \in {9, 10, 11, 12, 13, 32, 133, 160}

RECURSIVE TrimLeft(_)
TrimLeft(s0) ==
    Strict(s0, LAMBDA s :
        IF s # <<>> /\ IsSpace(Head(s)) THEN TrimLeft(Tail(s)) ELSE s)

RECURSIVE TrimRight(_)
TrimRight(s0) ==
    Strict(s0, LAMBDA s :
        IF s # <<>> /\ IsSpace(s[Len(s)]) THEN TrimRight(SubSeq(s, 1, Len(s) - 1)) ELSE s)

(* strings.TrimSpace *)
TrimSpace(s) == TrimRight(TrimLeft(s))

(* A loop that leaves every value as it was decoded. *)
trimValuesNone(screen0, values0) == values0

(* The loop that strips spaces from the values of the screen's fields      *)
(* that do not keep them.                                                  *)
RECURSIVE trimValues(_, _)
trimValues(screen0, values0) ==
    Strict(<<screen0, values0>>, LAMBDA a :
        IF a[1] = <<>> THEN a[2]
        ELSE IF ~Head(a[1]).KeepSpaces /\ Head(a[1]).Name \in DOMAIN a[2]
        THEN trimValues(Tail(a[1]),
                        [a[2] EXCEPT ![Head(a[1]).Name] = TrimSpace(@)])
        ELSE trimValues(Tail(a[1]), a[2]))

(* A read that is made whatever NoResponse says. *)
readsResponseAlways(opts) == TRUE

(* if !opts.NoResponse *)
readsResponse(opts) == ~opts.NoResponse

(* A ShowScreenOpts that goes from the write past the callback. *)
afterWriteSkipsCallback(opts) ==
    IF readsResponse(opts) THEN "reading" ELSE "return"

(* Where ShowScreenOpts goes when showScreenInternal returned no error. *)
afterWrite(opts) ==
    IF opts.PostSendCallback # "nil" THEN "callback"
    ELSE IF readsResponse(opts) THEN "reading"
    ELSE "return"

(* Where ShowScreenOpts goes when the callback returned cberr. *)
afterCallback(opts, cberr) ==
    IF cberr # "nil" THEN "return"
    ELSE IF readsResponse(opts) THEN "reading"
    ELSE "return"

(* A fieldmap shared by the calls on a connection: the one written last    *)
(* by the updating task.                                                   *)
sharedFieldmap(fms, c) == fms["U"]

(* The fieldmap a call hands to readResponse: its own local fm. *)
callFieldmap(fms, c) == fms[c]

-----------------------------------------------------------------------------
(* The 3270 terminal at the other end of the connection.  It keeps the     *)
(* fields it was sent, by the buffer address of the attribute byte, with   *)
(* the data shown in each; Erase/Write and Erase/Write Alternate empty the *)
(* buffer, Write overlays it; buffer addresses wrap at the buffer size.    *)
(* On Enter it sends, for every unprotected field, an SBA with the address *)
(* after the attribute byte and the field's data.                          *)

TermInit == [fields |-> EmptyMap, size |-> 24 * 80, cursor |-> 0]

(* The alternate buffer size of the terminal: 27x132. *)
TermAltSize == 27 * 132

(* The 3270 data of an outbound record: IAC IAC is 0xFF, IAC EOR ends it. *)
RECURSIVE Payload(_)
Payload(bs0) ==
    Strict(bs0, LAMBDA bs :
        IF bs = <<>> THEN <<>>
        ELSE IF Head(bs) = iac
        THEN IF Len(bs) >= 2 /\ bs[2] = iac
             THEN <<iac>> \o Payload(Drop(bs, 2))
             ELSE <<>>
        ELSE <<Head(bs)>> \o Payload(Tail(bs)))

TermStartField(st, attr) ==
    [st EXCEPT !.fields = MapPut(st.fields, st.addr,
                                 [write |-> (attr % 64) \div 32 = 0, data |-> <<>>]),
               !.cur = st.addr,
               !.addr = (st.addr + 1) % st.size]

TermPutData(st, b) ==
    IF st.cur = -1
    THEN [st EXCEPT !.addr = (st.addr + 1) % st.size]
    ELSE [st EXCEPT !.fields[st.cur].data = Append(@, b),
                    !.addr = (st.addr + 1) % st.size]

(* The basic attribute among the n type/value pairs of an SFE at p[i]. *)
TermBasicAttr(p, i, n) ==
    LET ks == {k \in 0..(n - 1) : i + 2 * k + 1 <= Len(p) /\ p[i + 2 * k] = 192}
    IN  IF ks = {} THEN 0
        ELSE p[i + 2 * (CHOOSE k \in ks : \A j \in ks : k <= j) + 1]

RECURSIVE TermOrders(_, _, _)
TermOrders(p, i, st0) ==
    Strict(st0, LAMBDA st :
        IF i > Len(p) THEN st
        ELSE IF p[i] = SBA /\ i + 2 <= Len(p)
        THEN TermOrders(p, i + 3,
                 [st EXCEPT !.addr = decodeBufAddr(<<p[i + 1], p[i + 2]>>) % st.size,
                            !.cur = -1])
        ELSE IF p[i] = SF /\ i + 1 <= Len(p)
        THEN TermOrders(p, i + 2, TermStartField(st, p[i + 1]))
        ELSE IF p[i] = SFE /\ i + 1 <= Len(p)
        THEN TermOrders(p, i + 2 + 2 * p[i + 1],
                        TermStartField(st, TermBasicAttr(p, i + 2, p[i + 1])))
        ELSE IF p[i] = IC
        THEN TermOrders(p, i + 1, [st EXCEPT !.cursor = st.addr])
        ELSE TermOrders(p, i + 1, TermPutData(st, p[i])))

(* The terminal after one outbound record. *)
TermApply(tm, bytes) ==
    Strict(Payload(bytes), LAMBDA p :
        IF Len(p) < 2 THEN tm
        ELSE Strict(TermOrders(p, 3,
                        [fields |-> IF p[1] \in {245, 126} THEN EmptyMap ELSE tm.fields,
                         size   |-> IF p[1] = 245 THEN 24 * 80
                                    ELSE IF p[1] = 126 THEN TermAltSize
                                    ELSE tm.size,
                         cursor |-> IF p[1] \in {245, 126} THEN 0 ELSE tm.cursor,
                         addr   |-> 0,
                         cur    |-> -1]),
                    LAMBDA st : [fields |-> st.fields, size |-> st.size,
                                 cursor |-> st.cursor]))

(* The attribute addresses of the terminal's unprotected fields. *)
TermWritable(tm) == {a \in DOMAIN tm.fields : tm.fields[a].write}

(* What Enter reports: <<address, data>> of the unprotected fields from    *)
(* attribute address from on, in buffer order.                             *)
RECURSIVE TermGroups(_, _)
TermGroups(tm, from) ==
    LET as == {a \in TermWritable(tm) : a >= from}
    IN  IF as = {} THEN <<>>
        ELSE LET a == CHOOSE x \in as : \A y \in as : x <= y
             IN  << <<(a + 1) % tm.size, tm.fields[a].data>> >>
                 \o TermGroups(tm, a + 1)

TermAddr(a) ==
    IF a < 4096
    THEN <<codes[((a \div 64) % 64) + 1], codes[(a % 64) + 1]>>
    ELSE <<(a \div 256) % 64, a % 256>>

RECURSIVE GroupBytes(_)
GroupBytes(groups0) ==
    Strict(groups0, LAMBDA groups :
        IF groups = <<>> THEN <<>>
        ELSE <<SBA>> \o TermAddr(Head(groups)[1]) \o Head(groups)[2]
             \o GroupBytes(Tail(groups)))

(* The inbound record of Enter. *)
TermEnter(tm) ==
    <<AIDEnter>>
    \o EscapeIAC(TermAddr(tm.cursor) \o GroupBytes(TermGroups(tm, 0)))
    \o <<iac, eor>>

-----------------------------------------------------------------------------
(* One connection after negotiation.  Task A calls ShowScreenOpts once;    *)
(* task U, as the ticker loop of example3, calls it up to MaxUpdates times *)
(* with NoResponse set.  A step of a call is its showScreenInternal with   *)
(* the Write, its callback, or its readResponse; the steps of the two      *)
(* tasks and of the client interleave in every order.                      *)

(* Bounds of the session specification. *)
MaxUpdates == 1
MaxEnters == 1

Callers == {"A", "U"}

(* The screens task A shows. *)
ReaderScreens ==
    {<<FieldX, FieldLabel>>, <<FieldX, FieldY>>, <<FieldX, FieldZ>>}

(* FieldX showing other content. *)
FieldXB == [FieldX EXCEPT !.Content = <<66>>]

(* The screens task U shows. *)
UpdateScreens == {<<FieldXB, FieldLabel>>, <<FieldQ>>}

Callbacks == {"nil", "ok", "err"}

(* What the user types into a field. *)
TypedData == {<<64, 194, 64>>}

OptsOf(dev, noResponse, noClear, cb) ==
    [AltScreen |-> dev, NoResponse |-> noResponse, NoClear |-> noClear,
     CursorRow |-> 0, CursorCol |-> 0, PostSendCallback |-> cb]

NoCall == [resp |-> ZeroResponse, err |-> "none"]

InitSession ==
    /\ \E s \in ReaderScreens, dev \in Devs, nr \in BOOLEAN, nc \in BOOLEAN,
          cb \in Callbacks :
           /\ sscreen = [c \in Callers |-> IF c = "A" THEN s ELSE <<>>]
           /\ sopts = [c \in Callers |->
                          IF c = "A" THEN OptsOf(dev, nr, nc, cb)
                          ELSE OptsOf(dev, TRUE, TRUE, "nil")]
    /\ spc = [c \in Callers |-> IF c = "A" THEN "start" ELSE "idle"]
    /\ sfm = [c \in Callers |-> EmptyMap]
    /\ sres = [c \in Callers |-> NoCall]
    /\ slog = [c \in Callers |-> <<>>]
    /\ sinb = <<>>
    /\ sclosed = FALSE
    /\ term = TermInit
    /\ tsent = <<>>
    /\ uhist = <<>>
    /\ nupd = 0
    /\ swire = <<>>

(* ShowScreenOpts returns. *)
Return(c, resp, err) ==
    /\ spc' = [spc EXCEPT ![c] = "done"]
    /\ sres' = [sres EXCEPT ![c] = [resp |-> resp, err |-> err]]

(* The updates written so far, each with whether A's write preceded it. *)
Updated(c) ==
    IF c = "U"
    THEN Append(uhist, [screen |-> sscreen[c], NoClear |-> sopts[c].NoClear,
                        afterA |-> slog["A"] # <<>>])
    ELSE uhist

(* The Write calls showScreenInternal makes for the datastream b it built, *)
(* as two calls: the command and WCC, then the rest.                       *)
connWriteCallsSplit(b) == <<SubSeq(b, 1, 2), SubSeq(b, 3, Len(b))>>

(* The Write calls showScreenInternal makes for the datastream b it built: *)
(* one, of the whole buffer.                                               *)
connWriteCalls(b) == <<b>>

(* The Writes of caller c, as the connection takes them. *)
WritesBy(c, calls) == [i \in 1..Len(calls) |-> [by |-> c, b |-> calls[i]]]

(* showScreenInternal with its Write succeeding, and what ShowScreenOpts   *)
(* does until its next call: the terminal, unless gone, has the record.    *)
ShowScreenWrite(c) ==
    /\ spc[c] = "start"
    /\ \E r \in {showScreenInternal(sscreen[c], EmptyMap, sopts[c].CursorRow,
                                    sopts[c].CursorCol, ~sopts[c].NoClear,
                                    sopts[c].AltScreen)} :
           /\ sfm' = [sfm EXCEPT ![c] = r.fm]
           /\ term' = IF sclosed THEN term ELSE TermApply(term, r.b)
           /\ swire' = swire \o WritesBy(c, connWriteCalls(r.b))
    /\ slog' = [slog EXCEPT ![c] = Append(@, "write")]
    /\ uhist' = Updated(c)
    /\ IF afterWrite(sopts[c]) = "return"
       THEN Return(c, ZeroResponse, "nil")
       ELSE spc' = [spc EXCEPT ![c] = afterWrite(sopts[c])] /\ UNCHANGED sres
    /\ UNCHANGED <<sscreen, sopts, sinb, sclosed, tsent, nupd>>

(* showScreenInternal with its Write failing on the closed connection. *)
ShowScreenWriteFails(c) ==
    /\ spc[c] = "start"
    /\ sclosed
    /\ slog' = [slog EXCEPT ![c] = Append(@, "writeFailed")]
    /\ Return(c, ZeroResponse, "io")
    /\ UNCHANGED <<sscreen, sopts, sfm, sinb, sclosed, term, tsent, uhist, nupd, swire>>

(* opts.PostSendCallback is called and returns. *)
PostSendCallback(c) ==
    /\ spc[c] = "callback"
    /\ slog' = [slog EXCEPT ![c] = Append(@, "callback")]
    /\ \E cberr \in {IF sopts[c].PostSendCallback = "err" THEN "cberr" ELSE "nil"} :
           IF afterCallback(sopts[c], cberr) = "return"
           THEN Return(c, ZeroResponse, cberr)
           ELSE spc' = [spc EXCEPT ![c] = afterCallback(sopts[c], cberr)]
                /\ UNCHANGED sres
    /\ UNCHANGED <<sscreen, sopts, sfm, sinb, sclosed, term, tsent, uhist, nupd, swire>>

(* readResponse returns, with a record or an error, and ShowScreenOpts     *)
(* strips the spaces and returns.                                          *)
ReadResponse(c) ==
    /\ spc[c] = "reading"
    /\ \E r \in {readResponse(sinb, callFieldmap(sfm, c), sopts[c].AltScreen, sclosed)} :
           /\ ~r.blocked
           /\ sinb' = r.rest
           /\ IF r.err # "nil"
              THEN Return(c, r.resp, r.err)
              ELSE Return(c, [r.resp EXCEPT !.Values = trimValues(sscreen[c], @)], "nil")
    /\ slog' = [slog EXCEPT ![c] = Append(@, "read")]
    /\ UNCHANGED <<sscreen, sopts, sfm, sclosed, term, tsent, uhist, nupd, swire>>

(* Task U calls ShowScreenOpts again: NoResponse, no callback, A's         *)
(* AltScreen.                                                              *)
StartUpdate ==
    /\ spc["U"] \in {"idle", "done"}
    /\ nupd < MaxUpdates
    /\ nupd' = nupd + 1
    /\ \E s \in UpdateScreens, nc \in BOOLEAN :
           /\ sscreen' = [sscreen EXCEPT !["U"] = s]
           /\ sopts' = [sopts EXCEPT !["U"] = OptsOf(sopts["A"].AltScreen, TRUE, nc, "nil")]
    /\ spc' = [spc EXCEPT !["U"] = "start"]
    /\ sfm' = [sfm EXCEPT !["U"] = EmptyMap]
    /\ sres' = [sres EXCEPT !["U"] = NoCall]
    /\ slog' = [slog EXCEPT !["U"] = <<>>]
    /\ UNCHANGED <<sinb, sclosed, term, tsent, uhist, swire>>

(* The user types into an unprotected field. *)
UserTypes ==
    /\ ~sclosed
    /\ Len(tsent) < MaxEnters
    /\ \E a \in TermWritable(term), d \in TypedData :
           /\ term.fields[a].data # d
           /\ term' = [term EXCEPT !.fields[a].data = d]
    /\ UNCHANGED <<sscreen, sopts, spc, sfm, sres, slog, sinb, sclosed, tsent, uhist, nupd, swire>>

(* The user presses Enter: the record is on its way in. *)
UserEnter ==
    /\ ~sclosed
    /\ Len(tsent) < MaxEnters
    /\ sinb' = sinb \o TermEnter(term)
    /\ tsent' = Append(tsent, [groups |-> TermGroups(term, 0), size |-> term.size,
                               afterA |-> slog["A"] # <<>>,
                               updates |-> Len(uhist)])
    /\ UNCHANGED <<sscreen, sopts, spc, sfm, sres, slog, sclosed, term, uhist, nupd, swire>>

(* The client closes the connection. *)
ClientGone ==
    /\ ~sclosed
    /\ sclosed' = TRUE
    /\ UNCHANGED <<sscreen, sopts, spc, sfm, sres, slog, sinb, term, tsent, uhist, nupd, swire>>

NextSession ==
    \/ \E c \in Callers : ShowScreenWrite(c) /\ UNCHANGED notSession
    \/ \E c \in Callers : ShowScreenWriteFails(c) /\ UNCHANGED notSession
    \/ \E c \in Callers : PostSendCallback(c) /\ UNCHANGED notSession
    \/ \E c \in Callers : ReadResponse(c) /\ UNCHANGED notSession
    \/ StartUpdate /\ UNCHANGED notSession
    \/ UserTypes /\ UNCHANGED notSession
    \/ UserEnter /\ UNCHANGED notSession
    \/ ClientGone /\ UNCHANGED notSession

(* The two tasks on a connection whose client only receives: it sends      *)
(* nothing, and may close.                                                 *)
NextWire ==
    \/ \E c \in Callers : ShowScreenWrite(c) /\ UNCHANGED notSession
    \/ \E c \in Callers : ShowScreenWriteFails(c) /\ UNCHANGED notSession
    \/ \E c \in Callers : PostSendCallback(c) /\ UNCHANGED notSession
    \/ \E c \in Callers : ReadResponse(c) /\ UNCHANGED notSession
    \/ StartUpdate /\ UNCHANGED notSession
    \/ ClientGone /\ UNCHANGED notSession

-----------------------------------------------------------------------------
(* Task A alone on the connection, showing its screen again after every    *)
(* response as the reading loop of example3 does, while the user types and *)
(* presses Enter, Clear and the PA keys.                                   *)

(* Bound of the keys specification: the number of records the user sends. *)
MaxKeys == 3

(* The AIDs of the keys that send no cursor address and no fields. *)
ShortAIDs == {AIDClear, AIDPA1, AIDPA2, AIDPA3}

InitKeys ==
    /\ \E s \in ReaderScreens, dev \in Devs :
           /\ sscreen = [c \in Callers |-> IF c = "A" THEN s ELSE <<>>]
           /\ sopts = [c \in Callers |->
                          IF c = "A" THEN OptsOf(dev, FALSE, FALSE, "nil")
                          ELSE OptsOf(dev, TRUE, TRUE, "nil")]
    /\ spc = [c \in Callers |-> IF c = "A" THEN "start" ELSE "idle"]
    /\ sfm = [c \in Callers |-> EmptyMap]
    /\ sres = [c \in Callers |-> NoCall]
    /\ slog = [c \in Callers |-> <<>>]
    /\ sinb = <<>>
    /\ sclosed = FALSE
    /\ term = TermInit
    /\ tsent = <<>>
    /\ uhist = <<>>
    /\ nupd = 0
    /\ swire = <<>>
    /\ khist = <<>>
    /\ ksent = <<>>

(* Task A calls ShowScreenOpts again with the same arguments. *)
ShowAgain ==
    /\ spc["A"] = "done"
    /\ spc' = [spc EXCEPT !["A"] = "start"]
    /\ sfm' = [sfm EXCEPT !["A"] = EmptyMap]
    /\ sres' = [sres EXCEPT !["A"] = NoCall]
    /\ slog' = [slog EXCEPT !["A"] = <<>>]
    /\ UNCHANGED <<sscreen, sopts, sinb, sclosed, term, tsent, uhist, nupd, swire>>

(* The user presses Clear or a PA key: the record is the AID alone; Clear  *)
(* empties the terminal's buffer.                                          *)
UserKey(aid) ==
    /\ ~sclosed
    /\ Len(ksent) < MaxKeys
    /\ sinb' = sinb \o <<aid, iac, eor>>
    /\ term' = IF aid = AIDClear THEN TermInit ELSE term
    /\ ksent' = Append(ksent, [aid |-> aid, cursor |-> 0, groups |-> <<>>])
    /\ UNCHANGED <<sscreen, sopts, spc, sfm, sres, slog, sclosed, tsent, uhist, nupd, swire>>

(* The record of an Enter, as the terminal is. *)
EnterRecord ==
    [aid |-> AIDEnter, cursor |-> term.cursor, groups |-> TermGroups(term, 0)]

NextKeys ==
    \/ ShowScreenWrite("A") /\ UNCHANGED keysVars /\ UNCHANGED notKeys
    \/ ReadResponse("A") /\ khist' = Append(khist, sres'["A"])
           /\ UNCHANGED ksent /\ UNCHANGED notKeys
    \/ ShowAgain /\ UNCHANGED keysVars /\ UNCHANGED notKeys
    \/ UserTypes /\ UNCHANGED keysVars /\ UNCHANGED notKeys
    \/ UserEnter /\ Len(ksent) < MaxKeys /\ ksent' = Append(ksent, EnterRecord)
           /\ UNCHANGED khist /\ UNCHANGED notKeys
    \/ \E aid \in ShortAIDs : UserKey(aid) /\ UNCHANGED khist /\ UNCHANGED notKeys

-----------------------------------------------------------------------------
(* The code page: Encode called on a string, Decode on what it returned.   *)

(* The longest string. *)
MaxString == 3

(* The units of the strings: A, U+00A8, three CP310 code points of which   *)
(* two share the byte 0x70, U+2603 which no table holds, U+FFFD, and a     *)
(* malformed unit.                                                         *)
StringUnits == {65, 168, 9674, 8900, 8317, 9731, RuneError, Malformed}

InitCp ==
    /\ einput \in SeqsUpTo(StringUnits, MaxString)
    /\ eout = <<>>
    /\ eback = <<>>
    /\ epc = "input"

EncodeCall ==
    /\ epc = "input"
    /\ eout' = cpEncode(einput)
    /\ epc' = "encoded"
    /\ UNCHANGED <<einput, eback>>

DecodeCall ==
    /\ epc = "encoded"
    /\ eback' = Decode(eout)
    /\ epc' = "decoded"
    /\ UNCHANGED <<einput, eout>>

NextCp ==
    \/ EncodeCall /\ UNCHANGED notCp
    \/ DecodeCall /\ UNCHANGED notCp

-----------------------------------------------------------------------------
(* RunTransactions.  A transaction is a function of the application: what  *)
(* it returns is any triple of a next transaction (or nil), a data value   *)
(* and an error (or nil).                                                  *)

(* The calls of transactions in one run. *)
MaxCalls == 3

Txs == {"menu", "edit"}
TxData == {0, 1}
TxErrors == {"nil", "failed"}

(* The DevInfo the transactions are called with. *)
txDev(dev) == IF dev.nil THEN DevOf(24, 80, "DEFAULT", "nil") ELSE dev

(* A loop that goes by next first, and returns an error only with it. *)
afterTxNextFirst(next, err) ==
    IF next = "nil" THEN [pc |-> "returned", ret |-> err]
    ELSE [pc |-> "running", ret |-> "nil"]

(* The loop after the call of a transaction: return, or go round. *)
afterTx(next, err) ==
    IF err # "nil" THEN [pc |-> "returned", ret |-> err]
    ELSE IF next = "nil" THEN [pc |-> "returned", ret |-> "nil"]
    ELSE [pc |-> "running", ret |-> "nil"]

InitTx ==
    /\ xinit \in [dev : Devs, initial : Txs, data : TxData]
    /\ xnext = xinit.initial
    /\ xdata = xinit.data
    /\ xhist = <<>>
    /\ xret = "nil"
    /\ xpc = "running"

(* One turn of the loop: next is called and returns. *)
CallTransaction ==
    /\ xpc = "running"
    /\ Len(xhist) < MaxCalls
    /\ \E next \in Txs \cup {"nil"}, newdata \in TxData, err \in TxErrors :
        /\ xhist' = Append(xhist, [tx |-> xnext, dev |-> txDev(xinit.dev), data |-> xdata,
                                   next |-> next, newdata |-> newdata, err |-> err])
        /\ xnext' = next
        /\ xdata' = newdata
        /\ xpc' = afterTx(next, err).pc
        /\ xret' = afterTx(next, err).ret
    /\ UNCHANGED xinit

NextTx ==
    \/ CallTransaction /\ UNCHANGED notTx

-----------------------------------------------------------------------------
(* HandleScreenAlt.  Field values and messages are strings; the keys of    *)
(* the maps are field names.                                               *)

AIDPF1 == 241

(* AIDtoString, the keys of the model. *)
AIDtoString(aid) ==
    CASE aid = AIDClear -> <<67, 108, 101, 97, 114>>
      [] aid = AIDEnter -> <<69, 110, 116, 101, 114>>
      [] aid = AIDPF1   -> <<80, 70, 49>>
      [] aid = AIDPF3   -> <<80, 70, 51>>

(* The runes of a field name. *)
NameString(name) ==
    CASE name = "x"   -> <<120>>
      [] name = "err" -> <<101, 114, 114>>

(* The Validators: nil, or NonBlank. *)
NonBlank(input) == ~(TrimSpace(input) = <<>>)

validatorAccepts(v, input) == IF v = "NonBlank" THEN NonBlank(input) ELSE TRUE

aidInArray(aid, aids) == \E i \in 1..Len(aids) : aids[i] = aid

mergeFieldValues(original, current) ==
    [k \in DOMAIN current \cup DOMAIN original |->
        IF k \in DOMAIN current THEN current[k] ELSE original[k]]

(* A Go map read: the zero value for a key that is not there. *)
MapGet(mp, k) == IF k \in DOMAIN mp THEN mp[k] ELSE <<>>

(* delete(m, k). *)
MapDelete(mp, k) == [j \in DOMAIN mp \ {k} |-> mp[j]]

(* origValues: the Content of the named fields of the screen. *)
origValuesOf(screen) ==
    [n \in {screen[i].Name : i \in {j \in 1..Len(screen) : screen[j].Name # ""}} |->
        screen[CHOOSE i \in 1..Len(screen) :
                   /\ screen[i].Name = n
                   /\ \A j \in (i + 1)..Len(screen) : screen[j].Name # n].Content]

(* The values after the loop's reset of the fields with Reset set. *)
resetFields(rules, screen, values) ==
    LET orig == origValuesOf(screen)
        R == {f \in DOMAIN rules : rules[f].Reset /\ f \in DOMAIN orig}
    IN  [k \in DOMAIN values \cup R |-> IF k \in R THEN orig[k] ELSE values[k]]

(* The MustChange test of the validation loop. *)
mustChangeFails(args, field, values) ==
    /\ args.rules[field].MustChange
    /\ values[field] = MapGet(origValuesOf(args.screen), field)

validatorFails(args, field, values) ==
    /\ args.rules[field].Validator # "nil"
    /\ ~validatorAccepts(args.rules[field].Validator, values[field])

(* The rules at which the validation loop stops. *)
failingRules(args, values) ==
    {f \in DOMAIN args.rules :
        /\ f \in DOMAIN values
        /\ (mustChangeFails(args, f, values) \/ validatorFails(args, f, values))}

(* The message the validation loop sets for the rule it stops at. *)
ruleMessage(args, field, values) ==
    IF mustChangeFails(args, field, values)
    THEN args.rules[field].ErrorText
    ELSE <<86, 97, 108, 117, 101, 32, 102, 111, 114, 32>> \o NameString(field) \o <<32, 105, 115, 32, 110, 111, 116, 32, 118, 97, 108, 105, 100>>

HandleResult(pc, resp, values) == [pc |-> pc, resp |-> resp, values |-> values]

(* The loop after ShowScreenOpts returned resp without error: the ways it  *)
(* can go on, one for each rule the range over rules may stop at.          *)
afterShowScreen(args, values, resp) ==
    IF aidInArray(resp.AID, args.exitkeys)
    THEN {HandleResult("returned", resp, values)}
    ELSE IF ~aidInArray(resp.AID, args.pfkeys)
    THEN {HandleResult("show", resp,
              (args.errorField :> (AIDtoString(resp.AID) \o <<58, 32, 117, 110, 107, 110, 111, 119, 110, 32, 107, 101, 121>>))
                  @@ (IF returnsEarly(resp.AID) THEN values
                      ELSE mergeFieldValues(values, resp.Values)))}
    ELSE IF returnsEarly(resp.AID)
    THEN {HandleResult("returned", resp, values)}
    ELSE LET merged == MapDelete(mergeFieldValues(values, resp.Values), args.errorField)
         IN  IF failingRules(args, merged) = {}
             THEN {HandleResult("returned", resp, merged)}
             ELSE {HandleResult("show", resp,
                                (args.errorField :> ruleMessage(args, f, merged)) @@ merged) :
                       f \in failingRules(args, merged)}

(* Bound: the ShowScreenOpts calls of one HandleScreenAlt call. *)
MaxRounds == 3

(* The input field "x" with its Content, and the protected error field. *)
InputField(content) == [PlainField EXCEPT !.Write = TRUE, !.Name = "x", !.Content = content]
ErrorField == [PlainField EXCEPT !.Row = 1, !.Name = "err"]

OldValue == <<111, 108, 100>>
NewValue == <<110, 101, 119>>
ChangeIt == <<67, 104, 97, 110, 103, 101, 32, 105, 116>>

HandleRules ==
    {("x" :> [MustChange |-> mc, ErrorText |-> et, Validator |-> v, Reset |-> FALSE]) :
        mc \in BOOLEAN, et \in {<<>>, ChangeIt}, v \in {"nil", "NonBlank"}}
    \cup {"x" :> [MustChange |-> TRUE, ErrorText |-> ChangeIt, Validator |-> "nil",
                  Reset |-> TRUE]}

InitHandle ==
    /\ hargs \in [screen : {<<InputField(c), ErrorField>> : c \in {<<>>, OldValue}},
                   rules : HandleRules,
                   values : {EmptyMap, "x" :> OldValue},
                   pfkeys : {<<AIDEnter>>, <<AIDEnter, AIDClear, AIDPF3>>},
                   exitkeys : {<<AIDPF3>>},
                   errorField : {"err"}]
    /\ myValues = hargs.values
    /\ hshown = <<>>
    /\ hresp = <<>>
    /\ hret = <<>>
    /\ hpc = "show"

(* The top of the loop: the reset, and the screen is written. *)
HandleShow ==
    /\ hpc = "show"
    /\ Len(hshown) < MaxRounds
    /\ myValues' = resetFields(hargs.rules, hargs.screen, myValues)
    /\ hshown' = Append(hshown, myValues')
    /\ hpc' = "wait"
    /\ UNCHANGED <<hargs, hresp, hret>>

(* What the terminal shows in the field "x". *)
ShownInX == IF "x" \in DOMAIN myValues THEN myValues["x"] ELSE hargs.screen[1].Content

(* The responses ShowScreenOpts can return: Clear without values, another  *)
(* key with the value of the writable field as left or as typed.           *)
UserResponses ==
    {[ZeroResponse EXCEPT !.AID = AIDClear]}
    \cup {[AID |-> aid, Row |-> 0, Col |-> 0, Values |-> "x" :> v] :
              aid \in {AIDEnter, AIDPF1, AIDPF3}, v \in {ShownInX, NewValue, <<>>}}

(* ShowScreenOpts returns a response, and the loop goes on from it. *)
HandleResponse ==
    /\ hpc = "wait"
    /\ \E resp \in UserResponses : \E r \in afterShowScreen(hargs, myValues, resp) :
        /\ hresp' = Append(hresp, [resp |-> resp, err |-> "nil"])
        /\ myValues' = r.values
        /\ hpc' = r.pc
        /\ hret' = IF r.pc = "returned" THEN [resp |-> resp, err |-> "nil"] ELSE hret
    /\ UNCHANGED <<hargs, hshown>>

(* ShowScreenOpts returns an error. *)
HandleError ==
    /\ hpc = "wait"
    /\ hresp' = Append(hresp, [resp |-> ZeroResponse, err |-> "io"])
    /\ hret' = [resp |-> ZeroResponse, err |-> "io"]
    /\ hpc' = "returned"
    /\ UNCHANGED <<hargs, myValues, hshown>>

NextHandle ==
    \/ HandleShow /\ UNCHANGED notHandle
    \/ HandleResponse /\ UNCHANGED notHandle
    \/ HandleError /\ UNCHANGED notHandle

-----------------------------------------------------------------------------
(* telnetReadN called again and again, with any count up to MaxCount, on   *)
(* one input stream until a call returns an error; a Read at the end of    *)
(* the stream fails.                                                       *)

MaxCount == 3

InitReadN ==
    /\ qrest \in SeqsUpTo(FramerBytes, MaxStream)
    /\ qfrom = <<>>
    /\ qn = 0
    /\ qres = <<>>
    /\ qpc = "reading"

ReadNCall ==
    /\ qpc = "reading"
    /\ \E n \in 0..MaxCount : \E r \in {telnetReadN(qrest, n, TRUE)} :
           /\ qfrom' = qrest
           /\ qn' = n
           /\ qres' = [buf |-> r.buf, isnil |-> r.isnil, err |-> r.err]
           /\ qrest' = r.rest
           /\ qpc' = IF r.err # "nil" THEN "failed" ELSE "reading"

NextReadN ==
    \/ ReadNCall /\ UNCHANGED notReadN

-----------------------------------------------------------------------------
(* makeDeviceInfo's loop over the structured fields of one query reply     *)
(* that has arrived whole, IAC EOR included.                               *)

MaxReplyFields == 2

(* A structured field: its two length bytes, then its content. *)
StructuredField(declared, content) == <<declared \div 256, declared % 256>> \o content

(* A Query Reply (Character Sets) field with the GF bit set, descriptor    *)
(* length dl and the descriptor bytes descs; its declared length is right. *)
CharacterSetsOf(dl, descs) ==
    StructuredField(13 + Len(descs), <<129, 133, 2, 0, 0, 0, 0, 0, 0, 0, dl>> \o descs)

(* Fields whose declared length is less than 4, a field with another       *)
(* QCODE, a Usable Area cut short.                                         *)
ShortFields ==
    {StructuredField(0, <<>>), StructuredField(1, <<>>), StructuredField(2, <<>>),
     StructuredField(3, <<129>>), StructuredField(3, <<5>>),
     StructuredField(4, <<129, 200>>), StructuredField(4, <<129, 129>>)}

(* Character Sets fields: descriptors whose first, second or no local ID   *)
(* is 0, a descriptor cut short, no descriptor at all, and descriptor      *)
(* lengths 0 and 1 with and without bytes after the descriptor length.     *)
CharacterSetsFields ==
    {CharacterSets(1047),
     CharacterSetsOf(3, <<1, 0, 37, 0, 4, 23>>),
     CharacterSetsOf(3, <<1, 0, 37>>),
     CharacterSetsOf(7, <<0, 0, 0>>),
     CharacterSetsOf(7, <<>>),
     CharacterSetsOf(1, <<>>),
     CharacterSetsOf(1, <<0>>),
     CharacterSetsOf(0, <<>>),
     CharacterSetsOf(0, <<0>>),
     CharacterSetsOf(0, <<1>>)}

ProbeFieldSet == ShortFields \cup CharacterSetsFields \cup {UsableArea(43, 80)}

InitProbe ==
    /\ pfields \in SeqsUpTo(ProbeFieldSet, MaxReplyFields)
    /\ pres = <<>>
    /\ ppc = "reply"

(* The loop, from the byte after the AID to the EOR or to its return. *)
ProbeFields ==
    /\ ppc = "reply"
    /\ \E q \in {queryFieldsLoop(QueryLocals(Flatten(pfields) \o <<iac, eor>>,
                                              24, 80, 0, FALSE), TRUE)} :
           pres' = [rows |-> q.rows, cols |-> q.cols, cpid |-> q.cpid, err |-> q.err,
                    rest |-> q.rest]
    /\ ppc' = "done"
    /\ UNCHANGED pfields

NextProbe ==
    \/ ProbeFields /\ UNCHANGED notProbe

-----
(* Specifications. *)

vars == <<codecVars, framerVars, respVars, negVars, writerVars, sessionVars, keysVars, cpVars, txVars, handleVars, readNVars, probeVars>>

InitC == InitCodec /\ IdleFramer /\ IdleResp /\ IdleNeg /\ IdleWriter /\ IdleSession /\ IdleKeys /\ IdleCp /\ IdleTx /\ IdleHandle /\ IdleReadN /\ IdleProbe
SpecCodec == InitC /\ [][NextCodec]_vars

InitF == IdleCodec /\ InitFramer /\ IdleResp /\ IdleNeg /\ IdleWriter /\ IdleSession /\ IdleKeys /\ IdleCp /\ IdleTx /\ IdleHandle /\ IdleReadN /\ IdleProbe
SpecFramer == InitF /\ [][NextFramer]_vars

InitR == IdleCodec /\ IdleFramer /\ InitResp /\ IdleNeg /\ IdleWriter /\ IdleSession /\ IdleKeys /\ IdleCp /\ IdleTx /\ IdleHandle /\ IdleReadN /\ IdleProbe
SpecResp == InitR /\ [][NextResp]_vars

InitRC == IdleCodec /\ IdleFramer /\ InitCut /\ IdleNeg /\ IdleWriter /\ IdleSession /\ IdleKeys /\ IdleCp /\ IdleTx /\ IdleHandle /\ IdleReadN /\ IdleProbe
SpecCut == InitRC /\ [][NextCut]_vars

InitN == IdleCodec /\ IdleFramer /\ IdleResp /\ InitNeg /\ IdleWriter /\ IdleSession /\ IdleKeys /\ IdleCp /\ IdleTx /\ IdleHandle /\ IdleReadN /\ IdleProbe
SpecNeg == InitN /\ [][NextNeg]_vars

InitNB == IdleCodec /\ IdleFramer /\ IdleResp /\ InitNegBroken /\ IdleWriter /\ IdleSession /\ IdleKeys /\ IdleCp /\ IdleTx /\ IdleHandle /\ IdleReadN /\ IdleProbe
SpecNegBroken == InitNB /\ [][NextNeg]_vars

InitW == IdleCodec /\ IdleFramer /\ IdleResp /\ IdleNeg /\ InitWriter /\ IdleSession /\ IdleKeys /\ IdleCp /\ IdleTx /\ IdleHandle /\ IdleReadN /\ IdleProbe
SpecWriter == InitW /\ [][NextWriter]_vars

InitWS == IdleCodec /\ IdleFramer /\ IdleResp /\ IdleNeg /\ InitWriterSized /\ IdleSession /\ IdleKeys /\ IdleCp /\ IdleTx /\ IdleHandle /\ IdleReadN /\ IdleProbe
SpecWriterSized == InitWS /\ [][NextWriter]_vars

InitS == IdleCodec /\ IdleFramer /\ IdleResp /\ IdleNeg /\ IdleWriter /\ InitSession /\ IdleKeys /\ IdleCp /\ IdleTx /\ IdleHandle /\ IdleReadN /\ IdleProbe
Spec == InitS /\ [][NextSession]_vars
SpecWire == InitS /\ [][NextWire]_vars

InitK == IdleCodec /\ IdleFramer /\ IdleResp /\ IdleNeg /\ IdleWriter /\ InitKeys /\ IdleCp /\ IdleTx /\ IdleHandle /\ IdleReadN /\ IdleProbe
SpecKeys == InitK /\ [][NextKeys]_vars

InitE == IdleCodec /\ IdleFramer /\ IdleResp /\ IdleNeg /\ IdleWriter /\ IdleSession /\ IdleKeys /\ InitCp /\ IdleTx /\ IdleHandle /\ IdleReadN /\ IdleProbe
SpecCp == InitE /\ [][NextCp]_vars

InitX == IdleCodec /\ IdleFramer /\ IdleResp /\ IdleNeg /\ IdleWriter /\ IdleSession /\ IdleKeys /\ IdleCp /\ InitTx /\ IdleHandle /\ IdleReadN /\ IdleProbe
SpecTx == InitX /\ [][NextTx]_vars

InitH == IdleCodec /\ IdleFramer /\ IdleResp /\ IdleNeg /\ IdleWriter /\ IdleSession /\ IdleKeys /\ IdleCp /\ IdleTx /\ InitHandle /\ IdleReadN /\ IdleProbe
SpecHandle == InitH /\ [][NextHandle]_vars

InitRN == IdleCodec /\ IdleFramer /\ IdleResp /\ IdleNeg /\ IdleWriter /\ IdleSession /\ IdleKeys /\ IdleCp /\ IdleTx /\ IdleHandle /\ InitReadN /\ IdleProbe
SpecReadN == InitRN /\ [][NextReadN]_vars

InitP == IdleCodec /\ IdleFramer /\ IdleResp /\ IdleNeg /\ IdleWriter /\ IdleSession /\ IdleKeys /\ IdleCp /\ IdleTx /\ IdleHandle /\ IdleReadN /\ InitProbe
SpecProbe == InitP /\ [][NextProbe]_vars

-----------------------------------------------------------------------------
(* Properties. *)

(* The record format of C1: after the cursor address come groups, each an  *)
(* SBA with its address followed by data bytes.                            *)
GroupedBody(body) == body = <<>> \/ Head(body)[1] = "sba"

(* The address two address bytes stand for (12-bit or 14-bit form). *)
AddrOfPair(b1, b2) ==
    IF b1 < 64 THEN b1 * 256 + b2 ELSE (b1 % 64) * 64 + (b2 % 64)

(* The data bytes of the group that starts at token i. *)
RECURSIVE GroupData(_, _)
GroupData(body, i) ==
    IF i > Len(body) \/ body[i][1] = "sba" THEN <<>>
    ELSE <<body[i][2]>> \o GroupData(body, i + 1)

(* The values of a record: the groups taken in order, each one whose       *)
(* address is a key of fm giving fm[address] -> decode(data).              *)
RECURSIVE ExpectedValues(_, _, _, _)
ExpectedValues(body, i, fm, acc) ==
    IF i > Len(body) THEN acc
    ELSE IF body[i][1] # "sba" THEN ExpectedValues(body, i + 1, fm, acc)
    ELSE LET addr == AddrOfPair(body[i][2], body[i][3])
         IN  ExpectedValues(body, i + 1, fm,
                            IF addr \in DOMAIN fm
                            THEN MapPut(acc, fm[addr], Decode(GroupData(body, i + 1)))
                            ELSE acc)

\* C1: for a record made of a non-Clear/PA AID, two cursor-address bytes,
\* groups (SBA, two address bytes, data bytes) and IAC EOR, readResponse
\* returns no error and a Response with that AID, Row = addr div cols and
\* Col = addr mod cols of the cursor address (cols = 80 without a DevInfo,
\* else its column count), and Values exactly fieldmap[address] ->
\* decode(data) for the groups whose address is a fieldmap key; the whole
\* record, the EOR included, is consumed.
C1_ReadResponseParsesRecord ==
    (rpc = "returned" /\ raid \notin {AIDClear, AIDPA1, AIDPA2, AIDPA3}
        /\ GroupedBody(rbody))
    => LET cols == IF rdev.nil THEN 80 ELSE rdev.cols
           addr == AddrOfPair(rcur[1], rcur[2])
       IN  /\ rres.err = "nil"
           /\ rres.resp.AID = raid
           /\ rres.resp.Row = addr \div cols
           /\ rres.resp.Col = addr % cols
           /\ rres.resp.Values = ExpectedValues(rbody, 1, rfm, EmptyMap)
           /\ rin = <<>>

(* Two groups, the second flushed by the EOR, one address not in the map. *)
C1_Witness ==
    /\ rpc = "returned"
    /\ raid = AIDEnter
    /\ rcur = <<78, 215>>
    /\ rdev.nil
    /\ rfm = (16 :> "x") @@ (4351 :> "y")
    /\ rbody = << <<"sba", 64, 80>>, <<"d", 193, 0>>, <<"sba", 16, 255>>, <<"d", 64, 0>> >>
    /\ rres.err = "nil"
    /\ rres.resp = [AID |-> AIDEnter, Row |-> 11, Col |-> 39,
                    Values |-> ("x" :> <<65>>) @@ ("y" :> <<32>>)]

\* C2: for all row, col, cols with address = row*cols + col < 2^14,
\* decodeBufAddr of the two bytes getpos produced, after the framer has
\* undone the doubling of a 0xFF, is address; in the 12-bit range and in
\* the 14-bit range.
C2_AddressRoundTrip ==
    (cpc = "decoded" /\ crow * ccols + ccol < 16384)
    => /\ cdec.err = "nil"
       /\ cdec.addr = crow * ccols + ccol
       /\ cdec.rest = <<>>

(* A 14-bit address whose low byte is 0xFF: three bytes on the wire. *)
C2_Witness ==
    /\ cpc = "decoded"
    /\ crow * ccols + ccol = 4351
    /\ Len(cenc) = 3
    /\ cdec.addr = 4351

(* X with every IAC command removed (IAC WILL/WONT/DO/DONT with its option *)
(* byte, IAC SB up to the SE byte, IAC with any other command byte) and    *)
(* every IAC IAC collapsed to one 0xFF.                                    *)
RECURSIVE AfterSE(_)
AfterSE(x) ==
    IF x = <<>> THEN <<>>
    ELSE IF Head(x) = se THEN Tail(x) ELSE AfterSE(Tail(x))

RECURSIVE StripTelnet(_)
StripTelnet(x) ==
    IF x = <<>> THEN <<>>
    ELSE IF Head(x) # iac THEN <<Head(x)>> \o StripTelnet(Tail(x))
    ELSE IF Len(x) = 1 THEN <<>>
    ELSE IF x[2] = iac THEN <<255>> \o StripTelnet(Drop(x, 2))
    ELSE IF x[2] = sb THEN StripTelnet(AfterSE(Drop(x, 2)))
    ELSE IF x[2] \in {will, wont, do, dont} THEN StripTelnet(Drop(x, 3))
    ELSE StripTelnet(Drop(x, 2))

\* C3: for every input stream X, the valid bytes returned by repeated
\* telnetRead calls, taken until the stream is exhausted, are X with every
\* IAC command and SB...SE run removed and every IAC IAC collapsed to 0xFF.
C3_FramerStripsCommands ==
    fpc = "failed" => fgot = StripTelnet(fin)

-----------------------------------------------------------------------------
(* Negotiation: what the log shows, without the line numbers. *)

W(bytes) == <<"w", bytes>>
R(bytes) == <<"r", bytes>>

View(log) == [i \in DOMAIN log |-> <<log[i].k, log[i].b>>]

ReadsOf(log) == SelectSeq(log, LAMBDA e : e.k = "r")

(* What the Reads of NegotiateTelnet return, in order, when the client of  *)
(* type t accepts every option and sends nothing it was not asked for: the *)
(* four replies, the deadline of the draining loop, the two DOs.           *)
AcceptReads(t) ==
    <<<<iac, will, terminalType>>, TypeReply(t), <<iac, will, eorOption>>,
      <<iac, will, binaryOption>>, <<>>, <<iac, do, eorOption>>,
      <<iac, do, binaryOption>>>>

Accepting(t) ==
    \A i \in 1..Min(Len(ReadsOf(nlog)), Len(AcceptReads(t))) :
        ReadsOf(nlog)[i].b = AcceptReads(t)[i]

(* The negotiation with such a client, up to and with the device probe. *)
HappyPath(t) ==
    <<W(<<iac, do, terminalType>>),
      R(<<iac, will, terminalType>>),
      W(<<iac, sb, terminalType, terminalTypeSend, iac, se>>),
      R(TypeReply(t)),
      W(<<iac, do, eorOption>>),
      R(<<iac, will, eorOption>>),
      W(<<iac, do, binaryOption>>),
      R(<<iac, will, binaryOption>>),
      R(<<>>),
      W(<<iac, will, eorOption>>),
      R(<<iac, do, eorOption>>),
      W(<<iac, will, binaryOption>>),
      R(<<iac, do, binaryOption>>),
      W(EraseWriteAlternate),
      W(ReadPartitionQuery)>>

(* The probe went unanswered, or was answered by a query reply that        *)
(* reports no usable area or the 24x80 of a model 2.                       *)
ProbeAnsweredAsModel2 ==
    /\ Len(ReadsOf(nlog)) > Len(AcceptReads(IBM_3278_2))
    /\ \/ ReadsOf(nlog)[8].b = <<>>
       \/ /\ Len(ReadsOf(nlog)) = 9
          /\ ReadsOf(nlog)[8].b = <<aidQueryResponse>>
          /\ ReadsOf(nlog)[9].b \in {<<iac, eor>>, UsableArea(24, 80) \o <<iac, eor>>}

(* C4: when the client accepts every option, the server's messages go out  *)
(* in the order DO Terminal-Type, SB Terminal-Type SEND SE, DO EOR, DO      *)
(* Binary, WILL EOR, WILL Binary, each one only after the reply to the      *)
(* previous one was read; the two probe messages follow the sixth reply;    *)
(* and for an IBM-3278-2 client NegotiateTelnet returns, without error, a   *)
(* DeviceInfo of 24x80 with the reported type.                              *)
C4_HappyPathOrder ==
    \A t \in TermTypes :
        Accepting(t) =>
            /\ \A i \in 1..Min(Len(nlog), Len(HappyPath(t))) :
                   View(nlog)[i] = HappyPath(t)[i]
            /\ (npc = "done" /\ t = IBM_3278_2 /\ ProbeAnsweredAsModel2) =>
                   /\ nres.err = "nil"
                   /\ nres.dev = DevOf(24, 80, IBM_3278_2, "nil")

C4_Witness ==
    /\ npc = "done"
    /\ Accepting(IBM_3278_2)
    /\ Len(ReadsOf(nlog)) = 9
    /\ ReadsOf(nlog)[9].b = UsableArea(24, 80) \o <<iac, eor>>
    /\ nres.err = "nil"
    /\ nres.dev.rows = 24 /\ nres.dev.cols = 80 /\ nres.dev.termtype = IBM_3278_2

(* A DO EOR or DO Binary of the client's own. *)
ClientDo(d) ==
    Len(d) = 3 /\ d[1] = iac /\ d[2] = do /\ d[3] \in {eorOption, binaryOption}

(* The reply that accepts what the server asked in phase pc. *)
OwnReply(pc) == <<iac, expectedYes(PhaseMode(pc)), PhaseOption(pc)>>

(* The server blocks in checkOptionResponse and its Read will return d. *)
OptionReadOf(d) == npc \in OptionPhases /\ ninb # <<>> /\ ConnRead(ninb, 3).data = d

(* The WILLs sent in answer to a client DO, and the server's own. *)
IsAnswerWill(e, o) == e.k = "w" /\ e.b = <<iac, will, o>> /\ e.at \in {153, 156, 234, 238}
IsOwnWill(e, o)    == e.k = "w" /\ e.b = <<iac, will, o>> /\ e.at \in {166, 178}

C5_CrossedStep ==
    \A o \in {eorOption, binaryOption} :
        (OptionReadOf(<<iac, do, o>>) /\ <<iac, do, o>> # OwnReply(npc)) =>
            /\ npc' = npc
            /\ View(nlog') = View(nlog) \o <<R(<<iac, do, o>>), W(<<iac, will, o>>)>>
            /\ (o = eorOption => sentWillEOR')
            /\ (o = binaryOption => sentWillBin')

C5_DelayedReplyStep ==
    (/\ nlog # <<>>
     /\ nlog[Len(nlog)].at \in {234, 238}
     /\ OptionReadOf(OwnReply(npc))) =>
        /\ npc' = AfterOption(npc, sentWillBin).pc
        /\ nres' = <<>>

C5_NoRepeat ==
    /\ \A o \in {eorOption, binaryOption} : \A j \in DOMAIN nlog :
           IsOwnWill(nlog[j], o) => \A i \in 1..(j - 1) : ~IsAnswerWill(nlog[i], o)
    /\ npc = "willEOR" => \A i \in DOMAIN nlog : ~IsAnswerWill(nlog[i], eorOption)
    /\ npc = "willBin" => \A i \in DOMAIN nlog : ~IsAnswerWill(nlog[i], binaryOption)

(* C5: while the server waits for the reply to an option command of its    *)
(* own and a client DO EOR or DO Binary arrives first, it sends the         *)
(* matching WILL at once, records it and keeps waiting; the delayed reply   *)
(* then counts as success; and an option whose WILL went out in answer to   *)
(* a client DO is not sent again in the server's WILL phase, nor does the   *)
(* server wait for a DO for it.                                             *)
C5_CrossedNegotiation ==
    /\ []C5_NoRepeat
    /\ [][C5_CrossedStep /\ C5_DelayedReplyStep]_vars

(* After DO Binary the client's DO EOR came before its WILL Binary; the    *)
(* server answered, took the late WILL Binary, and went on without a WILL  *)
(* EOR of its own.                                                         *)
C5_Witness ==
    /\ npc = "aid"
    /\ sentWillEOR
    /\ \E i \in DOMAIN nlog :
           /\ i + 3 <= Len(nlog)
           /\ SubSeq(View(nlog), i, i + 3) =
                  <<W(<<iac, do, binaryOption>>), R(<<iac, do, eorOption>>),
                    W(<<iac, will, eorOption>>), R(<<iac, will, binaryOption>>)>>
    /\ \A i \in DOMAIN nlog : ~IsOwnWill(nlog[i], eorOption)
    /\ \E i \in DOMAIN nlog : IsOwnWill(nlog[i], binaryOption)

(* A reply the option exchange of phase pc must refuse. *)
RefusedReply(pc, d) ==
    \/ Len(d) < 3
    \/ d[1] # iac
    \/ d[2] \in {wont, dont}
    \/ ~ClientDo(d) /\ (d[2] # expectedYes(PhaseMode(pc)) \/ d[3] # PhaseOption(pc))

(* A terminal-type reply that is too short or not framed. *)
RefusedTypeReply(d) ==
    \/ Len(d) < 7
    \/ SubSeq(d, 1, 4) # <<iac, sb, terminalType, terminalTypeIs>>
    \/ SubSeq(d, Len(d) - 1, Len(d)) # <<iac, se>>

C6_RefusalStep ==
    (\/ npc \in OptionPhases /\ ninb # <<>> /\ RefusedReply(npc, ConnRead(ninb, 3).data)
     \/ npc = "getType" /\ ninb # <<>> /\ RefusedTypeReply(ConnRead(ninb, 100).data)) =>
        /\ npc' = "done"
        /\ nres' = [dev |-> NilDev, err |-> "ErrNo3270"]

(* C6: NegotiateTelnet returns ErrNo3270 and no DeviceInfo when, in an     *)
(* option exchange, the client answers WONT or DONT, answers with fewer    *)
(* than three bytes or without a leading IAC, answers with a verb that is  *)
(* neither the acceptance nor a DO EOR / DO Binary of its own, or echoes   *)
(* another option; and when the terminal-type reply is shorter than 7      *)
(* bytes or not framed as IAC SB 24 IS ... IAC SE.                         *)
C6_NegotiationFailure == [][C6_RefusalStep]_vars

C6_Witness ==
    /\ npc = "done"
    /\ nres = [dev |-> NilDev, err |-> "ErrNo3270"]
    /\ nlog[Len(nlog)] = Rd(<<iac, wont, binaryOption>>, 218)
    /\ \E i \in DOMAIN nlog : nlog[i] = Rd(TypeReply(IBM_3278_2), 270)

-----------------------------------------------------------------------------
(* The writable fields of a screen that lie inside the screen dimensions. *)
WritableInside(screen, dev) ==
    {i \in 1..Len(screen) :
        /\ screen[i].Write
        /\ screen[i].Row \in 0..(screenRows(dev) - 1)
        /\ screen[i].Col \in 0..(screenCols(dev) - 1)}

DataPosition(fld, dev) == fld.Row * screenCols(dev) + fld.Col + 1

LastAt(screen, dev, k) ==
    CHOOSE i \in WritableInside(screen, dev) :
        /\ DataPosition(screen[i], dev) = k
        /\ \A j \in WritableInside(screen, dev) :
               DataPosition(screen[j], dev) = k => j <= i

ExpectedFieldmap(screen, dev) ==
    [k \in {DataPosition(screen[i], dev) : i \in WritableInside(screen, dev)} |->
        screen[LastAt(screen, dev, k)].Name]

\* C10: the fieldmap showScreenInternal returns has exactly the keys
\* row*cols+col+1 of the screen's writable fields that lie inside the
\* screen dimensions, each mapped to the name of the last such field of the
\* screen at that position; a screen without writable fields gives the
\* empty fieldmap, and a non-writable field adds no key.
C10_FieldmapKeys ==
    wpc = "written" =>
        /\ wfm = ExpectedFieldmap(wscreen, wdev)
        /\ (\A i \in 1..Len(wscreen) : ~wscreen[i].Write) => wfm = EmptyMap

(* A screen written with two writable fields of different names at one     *)
(* position, a non-writable named field and a writable field outside the   *)
(* screen.                                                                 *)
C10_Witness ==
    /\ wpc = "written"
    /\ \E i, j \in WritableInside(wscreen, wdev) :
           /\ i < j
           /\ DataPosition(wscreen[i], wdev) = DataPosition(wscreen[j], wdev)
           /\ wscreen[i].Name # wscreen[j].Name
           /\ wfm[DataPosition(wscreen[j], wdev)] = wscreen[j].Name
    /\ \E i \in 1..Len(wscreen) : ~wscreen[i].Write /\ wscreen[i].Name # ""

(* A screen written whose only writable field lies outside the screen. *)
C10_WitnessOutside ==
    /\ wpc = "written"
    /\ \E i \in 1..Len(wscreen) : wscreen[i].Write
    /\ WritableInside(wscreen, wdev) = {}
    /\ wfm = EmptyMap

-----------------------------------------------------------------------------
(* The call c did e. *)
Did(c, e) == \E i \in 1..Len(slog[c]) : slog[c][i] = e

(* What one ShowScreenOpts call may have done, in order. *)
CallOrders ==
    {<<>>, <<"write">>, <<"writeFailed">>, <<"write", "callback">>,
     <<"write", "read">>, <<"write", "callback", "read">>}

C7_CallOrder ==
    \A c \in Callers :
        /\ slog[c] \in CallOrders
        /\ Did(c, "callback") => sopts[c].PostSendCallback # "nil"
        /\ (Did(c, "read") /\ sopts[c].PostSendCallback # "nil") => Did(c, "callback")
        /\ spc[c] = "done" =>
               /\ Did(c, "writeFailed") => sres[c].err = "io"
               /\ (Did(c, "write") /\ sopts[c].PostSendCallback # "nil")
                      => Did(c, "callback")
               /\ (Did(c, "callback") /\ sopts[c].PostSendCallback = "err")
                      => /\ sres[c] = [resp |-> ZeroResponse, err |-> "cberr"]
                         /\ ~Did(c, "read")

C7_ReadStep ==
    Len(sinb') < Len(sinb) =>
        \E c \in Callers :
            /\ slog'[c] = Append(slog[c], "read")
            /\ sopts[c].PostSendCallback # "nil" => Did(c, "callback")

\* C7: every ShowScreenOpts call writes the screen first, then calls the
\* callback if one is set, at most once and only after the write succeeded,
\* and only then reads: no inbound byte is consumed before the callback has
\* returned; a callback error is returned as the call's error and nothing is
\* read; a failed write returns its error and the callback is not called.
C7_WriteCallbackRead == []C7_CallOrder /\ [][C7_ReadStep]_vars

(* A call that wrote, called its callback and then read a record. *)
C7_Witness ==
    /\ spc["A"] = "done"
    /\ slog["A"] = <<"write", "callback", "read">>
    /\ sres["A"].err = "nil"
    /\ sres["A"].resp.AID = AIDEnter
    /\ sres["A"].resp.Values # EmptyMap

(* A call whose callback failed, with a record waiting to be read. *)
C7_WitnessCallbackError ==
    /\ spc["A"] = "done"
    /\ slog["A"] = <<"write", "callback">>
    /\ ~sopts["A"].NoResponse
    /\ sres["A"].err = "cberr"
    /\ sinb # <<>>

(* A call whose write failed though a callback was set. *)
C7_WitnessWriteError ==
    /\ spc["A"] = "done"
    /\ slog["A"] = <<"writeFailed">>
    /\ sopts["A"].PostSendCallback # "nil"
    /\ sres["A"].err = "io"

C8_NoRead ==
    \A c \in Callers :
        sopts[c].NoResponse =>
            /\ ~Did(c, "read")
            /\ (spc[c] = "done" /\ Did(c, "write")) =>
                   /\ sopts[c].PostSendCallback # "nil" => Did(c, "callback")
                   /\ sres[c].err = "nil" => sres[c].resp = ZeroResponse

C8_CallStep ==
    \A c \in Callers :
        (sopts[c].NoResponse /\ slog'[c] # slog[c]) => sinb' = sinb

\* C8: a ShowScreenOpts call with NoResponse set performs no read: it
\* returns the empty Response, its steps leave the inbound bytes as they
\* are for a later call, and its callback, if set, is still called.
C8_NoResponse == []C8_NoRead /\ [][C8_CallStep]_vars

(* A NoResponse call that returned after its callback, with a record of    *)
(* the client still unread.                                                *)
C8_Witness ==
    /\ sopts["A"].NoResponse
    /\ sopts["A"].PostSendCallback = "ok"
    /\ spc["A"] = "done"
    /\ slog["A"] = <<"write", "callback">>
    /\ sres["A"] = [resp |-> ZeroResponse, err |-> "nil"]
    /\ sinb # <<>>
    /\ \E i \in 1..Len(tsent) : tsent[i].afterA /\ tsent[i].groups # <<>>

(* The fields of a screen inside the screen dimensions. *)
Inside(screen, dev) ==
    {i \in 1..Len(screen) :
        /\ screen[i].Row \in 0..(screenRows(dev) - 1)
        /\ screen[i].Col \in 0..(screenCols(dev) - 1)}

AttrAddr(fld, dev) == fld.Row * screenCols(dev) + fld.Col

(* The writable-field layout of a screen: the attribute addresses at which *)
(* the last field written is writable.                                     *)
Layout(screen, dev) ==
    {AttrAddr(screen[i], dev) :
        i \in {k \in Inside(screen, dev) :
                  /\ screen[k].Write
                  /\ \A j \in Inside(screen, dev) :
                         j > k => AttrAddr(screen[j], dev) # AttrAddr(screen[k], dev)}}

(* The update screen u leaves the layout of screen a as it is. *)
KeepsLayout(u, a, dev) ==
    \A i \in Inside(u, dev) : u[i].Write <=> AttrAddr(u[i], dev) \in Layout(a, dev)

(* The groups of a record resolved with fm: name -> the decoded data of    *)
(* the last group whose address fm has for that name.                      *)
Resolved(groups, fm) ==
    LET hits == {i \in 1..Len(groups) : groups[i][1] \in DOMAIN fm}
        last(n) == CHOOSE i \in hits :
                       /\ fm[groups[i][1]] = n
                       /\ \A j \in hits : fm[groups[j][1]] = n => j <= i
    IN  [n \in {fm[groups[i][1]] : i \in hits} |-> Decode(groups[last(n)][2])]

(* Values with the spaces stripped for the names of fields of the screen   *)
(* that do not keep them.                                                  *)
Stripped(screen, values) ==
    [n \in DOMAIN values |->
        IF \E i \in 1..Len(screen) : screen[i].Name = n /\ ~screen[i].KeepSpaces
        THEN TrimSpace(values[n]) ELSE values[n]]

(* The updates written between A's write and the sending of record rec     *)
(* were all NoClear and kept the layout of A's screen.                     *)
UpdatesKeepLayout(rec) ==
    \A u \in 1..rec.updates :
        uhist[u].afterA =>
            /\ uhist[u].NoClear
            /\ KeepsLayout(uhist[u].screen, sscreen["A"], sopts["A"].AltScreen)

\* C9: the reading call A returns the values of the record the client
\* sent, resolved with the fieldmap of A's own screen and under the names of
\* A's screen, whatever calls of task U ran meanwhile; and when the updates
\* written between A's clearing write and the client's Enter were NoClear
\* and kept the writable-field layout, the client reported exactly the
\* fields of A's layout, as without the updates.
C9_ReaderUnaffected ==
    (spc["A"] = "done" /\ Did("A", "read") /\ sres["A"].err = "nil")
    => LET rec == tsent[1]
           dev == sopts["A"].AltScreen
       IN  /\ sres["A"].resp.AID = AIDEnter
           /\ sres["A"].resp.Values =
                  Stripped(sscreen["A"],
                           Resolved(rec.groups, ExpectedFieldmap(sscreen["A"], dev)))
           /\ (rec.afterA /\ ~sopts["A"].NoClear /\ UpdatesKeepLayout(rec))
                  => {rec.groups[i][1] : i \in 1..Len(rec.groups)}
                         = {(a + 1) % rec.size : a \in Layout(sscreen["A"], dev)}

(* A blocked in its read while U overlays a screen of the same layout; the *)
(* user then types and sends, and A returns what was typed under "x".      *)
C9_Witness ==
    /\ spc["A"] = "done" /\ Did("A", "read") /\ sres["A"].err = "nil"
    /\ ~sopts["A"].NoClear
    /\ tsent[1].afterA
    /\ tsent[1].updates >= 1
    /\ uhist[1].afterA
    /\ UpdatesKeepLayout(tsent[1])
    /\ sfm["U"] # sfm["A"]
    /\ "x" \in DOMAIN sres["A"].resp.Values
    /\ sres["A"].resp.Values["x"] = <<66>>
    /\ \E i \in 1..Len(tsent[1].groups) : tsent[1].groups[i][2] = <<64, 194, 64>>

-----------------------------------------------------------------------------
(* The screen without the fields outside the rows x cols of dev. *)
WithoutOutside(screen, dev) ==
    SelectSeq(screen, LAMBDA f : /\ f.Row >= 0 /\ f.Row < screenRows(dev)
                                 /\ f.Col >= 0 /\ f.Col < screenCols(dev))

\* C11: a field with Row < 0, Row >= rows, Col < 0 or Col >= cols of the
\* effective screen is dropped silently: the call returns no error, and the
\* bytes written and the fieldmap are those of the same call on the screen
\* with every such field removed.
C11_OutsideFieldsDropped ==
    wpc = "written" =>
        /\ werr = "nil"
        /\ Len(wwire) = 1
        /\ LET r == showScreenInternal(WithoutOutside(wscreen, wdev), wvalues,
                                       wcursor[1], wcursor[2], wclear, wdev)
           IN  wwire[1] = r.b /\ wfm = r.fm

(* A screen written with a field inside between two fields outside, one   *)
(* of them writable.                                                       *)
C11_Witness ==
    /\ wpc = "written"
    /\ Len(wscreen) = 3
    /\ WithoutOutside(wscreen, wdev) = <<wscreen[2]>>
    /\ wscreen[1].Write
    /\ wscreen[2].Write
    /\ DOMAIN wfm = {wscreen[2].Row * screenCols(wdev) + wscreen[2].Col + 1}

(* The screen with the Content of every named field that has an entry in   *)
(* values replaced by that entry.                                          *)
WithValues(screen, values) ==
    [i \in 1..Len(screen) |->
        IF screen[i].Name # "" /\ screen[i].Name \in DOMAIN values
        THEN [screen[i] EXCEPT !.Content = values[screen[i].Name]]
        ELSE screen[i]]

(* The bytes one field inside the screen contributes. *)
FieldBytes(fld, content, dev) ==
    sba(fld.Row, fld.Col, screenCols(dev)) \o buildField(fld) \o a2e(content)

\* C12: a field with a non-empty Name that is a key of the values map emits
\* the encoding of values[Name] instead of its Content, also when that value
\* is the empty string (no content bytes); a field without an entry, and
\* every unnamed field, emits its own Content.
C12_ValuesOverrideContent ==
    wpc = "written" =>
        /\ wwire[1] = showScreenInternal(WithValues(wscreen, wvalues), EmptyMap,
                                         wcursor[1], wcursor[2], wclear, wdev).b
        /\ (Len(WithoutOutside(wscreen, wdev)) = 1) =>
               LET f == WithoutOutside(wscreen, wdev)[1]
                   content == IF f.Name # "" /\ f.Name \in DOMAIN wvalues
                              THEN wvalues[f.Name] ELSE f.Content
               IN  SubSeq(wwire[1], 3, 2 + Len(FieldBytes(f, content, wdev)))
                       = FieldBytes(f, content, wdev)

(* A screen written with "x" given the empty string, beside an unnamed     *)
(* field while values has an entry under the empty name.                   *)
C12_Witness ==
    /\ wpc = "written"
    /\ "" \in DOMAIN wvalues
    /\ wvalues["x"] = <<>>
    /\ \E i, j \in 1..Len(WithoutOutside(wscreen, wdev)) :
           /\ WithoutOutside(wscreen, wdev)[i] = FieldX
           /\ WithoutOutside(wscreen, wdev)[j] = FieldLabel

(* A single named field written whose values entry is the empty string. *)
C12_WitnessEmpty ==
    /\ wpc = "written"
    /\ wscreen = <<FieldX>>
    /\ "x" \in DOMAIN wvalues /\ wvalues["x"] = <<>>
    /\ wclear /\ wdev.nil /\ wcursor = <<27, 132>>
    /\ wwire[1] = <<245, 195, SBA, 64, 64, SF, 193, SBA, 64, 64, IC, 255, 239>>

-----------------------------------------------------------------------------
(* v is s without the white space at its two ends. *)
IsTrimOf(v, s) ==
    /\ v = <<>> \/ (~IsSpace(v[1]) /\ ~IsSpace(v[Len(v)]))
    /\ \E i \in 1..(Len(s) + 1) :
           /\ i + Len(v) - 1 <= Len(s)
           /\ SubSeq(s, i, i + Len(v) - 1) = v
           /\ \A k \in 1..Len(s) : (k < i \/ k > i + Len(v) - 1) => IsSpace(s[k])

(* The decoded field data of the record call A read, by name. *)
DecodedData ==
    Resolved(tsent[1].groups, ExpectedFieldmap(sscreen["A"], sopts["A"].AltScreen))

\* C13: after ShowScreenOpts read a response, the value of every field with
\* KeepSpaces = false has no leading or trailing white space (it is the
\* decoded data without the white space at its ends), the value of a field
\* with KeepSpaces = true is exactly the decoded field data, and the keys of
\* Values are those of the decoded data.
C13_KeepSpaces ==
    (spc["A"] = "done" /\ Did("A", "read") /\ sres["A"].err = "nil")
    => LET values == sres["A"].resp.Values
       IN  /\ DOMAIN values = DOMAIN DecodedData
           /\ \A i \in 1..Len(sscreen["A"]) :
                  LET f == sscreen["A"][i]
                  IN  f.Name \in DOMAIN values =>
                          IF f.KeepSpaces
                          THEN values[f.Name] = DecodedData[f.Name]
                          ELSE IsTrimOf(values[f.Name], DecodedData[f.Name])

(* The user typed " B " into the field "x", which does not keep spaces:    *)
(* the call returns "B".                                                   *)
C13_Witness ==
    /\ spc["A"] = "done" /\ Did("A", "read") /\ sres["A"].err = "nil"
    /\ "x" \in DOMAIN DecodedData
    /\ DecodedData["x"] = <<32, 66, 32>>
    /\ sres["A"].resp.Values["x"] = <<66>>

(* The user typed " B " into the field "y", which keeps spaces. *)
C13_WitnessKept ==
    /\ spc["A"] = "done" /\ Did("A", "read") /\ sres["A"].err = "nil"
    /\ "y" \in DOMAIN DecodedData
    /\ sres["A"].resp.Values["y"] = <<32, 66, 32>>

-----------------------------------------------------------------------------
(* The Response of a Clear or PA key. *)
ShortResponse(aid) == [AID |-> aid, Row |-> 0, Col |-> 0, Values |-> EmptyMap]

C14_ShortResponses ==
    \A n \in 1..Len(khist) :
        ksent[n].aid \in ShortAIDs =>
            khist[n] = [resp |-> ShortResponse(ksent[n].aid), err |-> "nil"]

C14_ReadStep ==
    (khist' # khist /\ khist'[Len(khist')].resp.AID \in ShortAIDs) =>
        \E k \in 1..Len(sinb) :
            /\ sinb[k] = khist'[Len(khist')].resp.AID
            /\ \A j \in 1..(k - 1) : ~IsAID(sinb[j])
            /\ sinb' = Drop(sinb, k)

\* C14: when the AID found is Clear, PA1, PA2 or PA3, the response reader
\* returns without error with that AID, Row = 0, Col = 0 and no field values,
\* having consumed no byte after the AID, and ShowScreenOpts returns this
\* result without error.
C14_ClearAndPAReturnEarly == []C14_ShortResponses /\ [][C14_ReadStep]_vars

(* Clear was pressed, then Enter; the first call returned the Clear, and   *)
(* the IAC EOR of its record and the Enter record are unread.              *)
C14_Witness ==
    /\ Len(khist) = 1
    /\ khist[1] = [resp |-> ShortResponse(AIDClear), err |-> "nil"]
    /\ Len(ksent) = 2
    /\ sinb = <<iac, eor>> \o <<AIDEnter, 64, 64, iac, eor>>

(* The Response ShowScreenOpts owes for a record the client sent. *)
ResponseFor(rec) ==
    IF rec.aid \in ShortAIDs THEN ShortResponse(rec.aid)
    ELSE [AID |-> rec.aid,
          Row |-> rec.cursor \div screenCols(sopts["A"].AltScreen),
          Col |-> rec.cursor % screenCols(sopts["A"].AltScreen),
          Values |-> Stripped(sscreen["A"],
                        Resolved(rec.groups,
                                 ExpectedFieldmap(sscreen["A"], sopts["A"].AltScreen)))]

C15_AfterShort ==
    \A n \in 2..Len(khist) :
        ksent[n - 1].aid \in ShortAIDs =>
            khist[n] = [resp |-> ResponseFor(ksent[n]), err |-> "nil"]

C15_ResidueStep ==
    (khist' # khist /\ Len(sinb) >= 2 /\ SubSeq(sinb, 1, 2) = <<iac, eor>>) =>
        LET r == readResponse(Drop(sinb, 2), sfm["A"], sopts["A"].AltScreen, FALSE)
        IN  /\ ~r.blocked
            /\ sinb' = r.rest
            /\ sres'["A"].err = r.err
            /\ sres'["A"].resp.AID = r.resp.AID
            /\ sres'["A"].resp.Row = r.resp.Row
            /\ sres'["A"].resp.Col = r.resp.Col
            /\ sres'["A"].resp.Values = Stripped(sscreen["A"], r.resp.Values)

\* C15: after a Clear or PA response returned early, the IAC EOR left unread
\* is discarded by the next response read, which returns the AID, cursor and
\* field values of the next record, exactly as if the residue had not been
\* there.
C15_ResidueDiscarded == []C15_AfterShort /\ [][C15_ResidueStep]_vars

(* PA1 was pressed and returned; the screen was shown again, the user      *)
(* typed " B " and pressed Enter, and the second call returned "B".        *)
C15_Witness ==
    /\ Len(khist) = 2
    /\ ksent[1].aid = AIDPA1
    /\ ksent[2].aid = AIDEnter
    /\ \E i \in 1..Len(ksent[2].groups) : ksent[2].groups[i][2] = <<64, 194, 64>>
    /\ khist[2].err = "nil"
    /\ khist[2].resp.AID = AIDEnter
    /\ "x" \in DOMAIN khist[2].resp.Values
    /\ khist[2].resp.Values["x"] = <<66>>

(* Two keys in a row, Clear then PA2, before the Enter is read. *)
C15_WitnessTwice ==
    /\ Len(khist) = 3
    /\ ksent[1].aid = AIDClear /\ ksent[2].aid = AIDPA2 /\ ksent[3].aid = AIDEnter
    /\ khist[3].resp.AID = AIDEnter

-----------------------------------------------------------------------------
(* NegotiateTelnet returned a DeviceInfo and no error. *)
NegotiationSucceeded == npc = "done" /\ nres.err = "nil"

(* The Read of the AID of the query reply ran into its deadline. *)
QueryTimedOut == npc = "done" /\ nlog[Len(nlog)] = Rd(<<>>, 352)

(* The dimensions by terminal type: the model digit of an IBM-dddd-N name. *)
SeededDimensions(t) ==
    IF modelRegex(t) = <<51>> THEN <<32, 80>>
    ELSE IF modelRegex(t) = <<52>> THEN <<43, 80>>
    ELSE IF modelRegex(t) = <<53>> THEN <<27, 132>>
    ELSE <<24, 80>>

\* C16: when the client does not answer the structured Query within the
\* timeout, NegotiateTelnet returns no error and a DeviceInfo with a nil code
\* page whose dimensions are those seeded from the terminal type: 24x80,
\* 32x80, 43x80, 27x132 for models 2, 3, 4, 5 and 24x80 for IBM-DYNAMIC or an
\* unmatched type.
C16_TimeoutKeepsSeededDimensions ==
    QueryTimedOut =>
        /\ nres.err = "nil"
        /\ ~nres.dev.nil
        /\ nres.dev.codepage = "nil"
        /\ <<nres.dev.rows, nres.dev.cols>> = SeededDimensions(devtype)

(* The fields the query loop read, when it read up to the EOR. *)
ReplyRead == nlog[Len(nlog)].b

QueryReplyEnded ==
    /\ npc = "done"
    /\ nlog[Len(nlog)] = Rd(ReplyRead, 372)
    /\ Len(ReplyRead) >= 2
    /\ SubSeq(ReplyRead, Len(ReplyRead) - 1, Len(ReplyRead)) = <<iac, eor>>

(* The fields of the model's query replies that hold no Usable Area. *)
FieldsWithoutUsableArea ==
    {<<>>, CharacterSets(37), CharacterSets(37) \o RPQNamesX3270,
     RPQNamesX3270 \o CharacterSets(37), CharacterSets(273)}

\* C17: when the terminal type is IBM-DYNAMIC and the Query Reply ends with
\* its EOR without a Usable Area field, NegotiateTelnet fails with
\* ErrUnknownTerminal and returns no DeviceInfo.
C17_DynamicNeedsUsableArea ==
    (/\ QueryReplyEnded
     /\ devtype = IBM_DYNAMIC
     /\ \E f \in FieldsWithoutUsableArea : ReplyRead = f \o <<iac, eor>>) =>
        /\ nres.err = "ErrUnknownTerminal"
        /\ nres.dev = NilDev

\* C18: every DeviceInfo NegotiateTelnet returns without error has
\* rows >= 1, cols >= 1 and rows * cols < 2^14, for every terminal type and
\* every sequence of Query Reply fields.
C18_DimensionsAddressable ==
    NegotiationSucceeded =>
        /\ nres.dev.rows >= 1
        /\ nres.dev.cols >= 1
        /\ nres.dev.rows * nres.dev.cols < 16384

\* C19: TerminalType() of the DeviceInfo of a successful negotiation is the
\* terminal-type string the client sent, whether or not it matches a known
\* model.
C19_TerminalTypeVerbatim ==
    NegotiationSucceeded => nres.dev.termtype = devtype

(* The code page IDs the library has a code page for. *)
SupportedIDs ==
    {37, 273, 275, 277, 278, 280, 284, 285, 297, 424, 500, 803, 870, 871, 875,
     880, 924, 1026, 1047, 1160} \cup (1140..1149)

CodepageName(id) == IF id = 37 THEN "cp037" ELSE "cp" \o ToString(id)

(* The code page ID and the x3270 mark the reply reported. *)
Reported == queryFieldsLoop(QueryLocals(ReplyRead, 0, 0, 0, FALSE), FALSE)

\* C20: the code page of the returned DeviceInfo is the bracket variant
\* exactly when the reported ID is 37 and RPQ Names identifies x3270;
\* otherwise it is the code page numbered by the reported ID for every
\* supported ID and nil for any other ID, whichever order the Character Sets
\* and RPQ Names fields arrive in.
C20_CodepageByReportedID ==
    (QueryReplyEnded /\ nres.err = "nil") =>
        nres.dev.codepage =
            IF Reported.cpid = 37 /\ Reported.isx3270 THEN "bracket"
            ELSE IF Reported.cpid \in SupportedIDs THEN CodepageName(Reported.cpid)
            ELSE "nil"

-----------------------------------------------------------------------------
\* C21: when the End-Of-Record of a record arrives while the response reader
\* reads the two cursor-address bytes, or the two address bytes after an SBA
\* order, the reader returns ErrTelnetError for that record and takes no byte
\* of a later record.
C21_CutRecordIsProtocolError ==
    (rpc = "returned" /\ rcut \in Cuts) =>
        /\ rres.err = "ErrTelnetError"
        /\ rin = rnext

-----------------------------------------------------------------------------
\* C22: the addressing codec refuses every address >= 2^14: for
\* row * cols + col >= 16384 getpos returns no encoding that decodes to a
\* different, wrapped address.
C22_NoWrappedAddress ==
    (cpc = "decoded" /\ crow * ccols + ccol >= 16384) =>
        ~(cdec.err = "nil" /\ cdec.addr # crow * ccols + ccol)

-----------------------------------------------------------------------------
(* One substitute byte for a malformed unit, the bytes of its rune for a   *)
(* scalar (the substitute byte when no table holds it).                    *)
UnitBytes(u) == IF u = Malformed THEN <<esub>> ELSE encodeRune(u)

RECURSIVE EveryUnit(_)
EveryUnit(s) ==
    IF s = <<>> THEN <<>> ELSE UnitBytes(Head(s)) \o EveryUnit(Tail(s))

\* C23: Encode emits exactly one substitute byte for every scalar without a
\* mapping in the code page and for every malformed unit, and continues with
\* the rest of the string: its output accounts for every unit of the input.
C23_EncodeAccountsForEveryUnit ==
    epc \in {"encoded", "decoded"} => eout = EveryUnit(einput)

\* C24: for every code point r that is a key of the CP310 rune-to-byte
\* table, Encode of the one-rune string r is {0x08, cp310_byte(r)} and Decode
\* of that sequence is r again.
C24_GraphicEscapeRoundTrip ==
    (epc = "decoded" /\ Len(einput) = 1 /\ einput[1] \in DOMAIN u2ge) =>
        /\ eout = <<8, u2ge[einput[1]]>>
        /\ eback = einput

-----------------------------------------------------------------------------
(* The call i of the run went on to another call. *)
WentOn(i) == xhist[i].err = "nil" /\ xhist[i].next # "nil"

C25_Chain ==
    /\ Len(xhist) >= 1 =>
           /\ xhist[1].tx = xinit.initial
           /\ xhist[1].data = xinit.data
    /\ \A i \in 2..Len(xhist) :
           /\ WentOn(i - 1)
           /\ xhist[i].tx = xhist[i - 1].next
           /\ xhist[i].data = xhist[i - 1].newdata

C25_Return ==
    IF xpc = "returned"
    THEN /\ Len(xhist) >= 1
         /\ ~WentOn(Len(xhist))
         /\ xret = xhist[Len(xhist)].err
    ELSE \A i \in 1..Len(xhist) : WentOn(i)

\* C25: RunTransactions calls the transactions one after another starting
\* with initial, each with the data the previous one returned (the caller's
\* data for the first); it returns nil right after the first transaction
\* that returns a nil next and a nil error, returns the error right after the
\* first transaction that returns an error, also one with a non-nil next, and
\* calls no transaction after either.
C25_TransactionsInTurn == C25_Chain /\ C25_Return

(* The second transaction returned an error and a next: the error is       *)
(* returned.                                                               *)
C25_Witness ==
    /\ xpc = "returned"
    /\ Len(xhist) = 2
    /\ xhist[1].newdata # xinit.data
    /\ xhist[2].err = "failed"
    /\ xhist[2].next # "nil"
    /\ xret = "failed"

(* The third transaction returned no next and no error. *)
C25_WitnessDone ==
    /\ xpc = "returned"
    /\ Len(xhist) = 3
    /\ xhist[3].err = "nil"
    /\ xhist[3].next = "nil"
    /\ xret = "nil"

-----------------------------------------------------------------------------
(* HandleScreenAlt: when it returns, and what it shows again.              *)

(* ShowScreenOpts has just returned a response without error. *)
GotResponse == hpc = "wait" /\ hpc' # "wait" /\ hresp'[Len(hresp')].err = "nil"

TheResponse == hresp'[Len(hresp')].resp

(* The values the rules are applied to after the response. *)
Submitted ==
    MapDelete(mergeFieldValues(myValues, TheResponse.Values), hargs.errorField)

(* The response is one after which HandleScreen may return. *)
Acceptable ==
    \/ aidInArray(TheResponse.AID, hargs.exitkeys)
    \/ /\ aidInArray(TheResponse.AID, hargs.pfkeys)
       /\ failingRules(hargs, Submitted) = {}

C26_ReturnStep ==
    GotResponse =>
        IF Acceptable
        THEN hpc' = "returned" /\ hret' = [resp |-> TheResponse, err |-> "nil"]
        ELSE hpc' = "show" /\ hargs.errorField \in DOMAIN myValues'

C26_ShownAgain ==
    (hpc = "wait" /\ Len(hshown) > 1) => hargs.errorField \in DOMAIN hshown[Len(hshown)]

\* C26: HandleScreenAlt returns without error only after a response whose
\* AID is in exitkeys, or is in pfkeys with no rule failing on the submitted
\* values; after every other response it does not return: the error field is
\* set and the screen is written again with it.
C26_ReturnsOnlyWhenAccepted == [][C26_ReturnStep]_vars /\ []C26_ShownAgain

(* The value the field had on the first screen: the override of the values *)
(* map if the screen was written with one, the Content otherwise.          *)
StartingValue(f) ==
    IF f \in DOMAIN hshown[1] THEN hshown[1][f] ELSE MapGet(origValuesOf(hargs.screen), f)

(* The user sends the fields with a key of pfkeys that is no exit key and  *)
(* no Clear or PA key.                                                     *)
Submission ==
    /\ GotResponse
    /\ aidInArray(TheResponse.AID, hargs.pfkeys)
    /\ ~aidInArray(TheResponse.AID, hargs.exitkeys)
    /\ ~returnsEarly(TheResponse.AID)

C27_Step ==
    (/\ Submission
     /\ \E f \in DOMAIN hargs.rules :
           /\ hargs.rules[f].MustChange
           /\ f \in DOMAIN Submitted
           /\ Submitted[f] = StartingValue(f))
    => hpc' = "show"

\* C27: a submission that leaves a MustChange field equal to its starting
\* value (the Content, or the override of the initial values map) does not
\* make HandleScreenAlt return: the screen is presented again.
C27_UnchangedFieldIsRejected == [][C27_Step]_vars

PleaseEnter(f) == <<80, 108, 101, 97, 115, 101, 32, 101, 110, 116, 101, 114, 32, 97, 32, 118, 97, 108, 105, 100, 32, 118, 97, 108, 117, 101, 32, 102, 111, 114, 32>> \o NameString(f) \o <<46>>

C28_Step ==
    (Submission /\ mustChangeFails(hargs, "x", Submitted))
    => /\ hpc' = "show"
       /\ hargs.errorField \in DOMAIN myValues'
       /\ myValues'[hargs.errorField] =
              IF hargs.rules["x"].ErrorText = <<>> THEN PleaseEnter("x")
              ELSE hargs.rules["x"].ErrorText

\* C28: when the MustChange check of a field fails, the error field of the
\* screen presented again holds the rule's ErrorText, or, for an empty
\* ErrorText, "Please enter a valid value for <fieldName>.".
C28_MustChangeMessage == [][C28_Step]_vars

-----------------------------------------------------------------------------
(* NegotiateTelnet: failures of the connection's Reads and Writes.         *)

FailedWrites == {i \in 1..Len(nlog) : nlog[i].k = "wfail"}

(* A failed Write is the last operation of the call, which has returned    *)
(* an error.                                                               *)
C29_WriteFailureEndsCall ==
    \A i \in FailedWrites : i = Len(nlog) /\ npc = "done" /\ nres.err # "nil"

(* A Read of a closed connection with nothing left to return. *)
C29_ReadFailureStep ==
    (npc \in OptionPhases \cup {"getType", "drain", "aid"} /\ ninb = <<>> /\ nclosed)
    => (npc' = "done" /\ nres'.err = "io" /\ nlog' = nlog)

\* C29: a Read or Write of the connection that fails inside NegotiateTelnet
\* is the call's last operation on the connection and the call returns an
\* error: nothing is read or written after it, and no call with a failed
\* Write returns success.
C29_FailureEndsCall == []C29_WriteFailureEndsCall /\ [][C29_ReadFailureStep]_vars

-----------------------------------------------------------------------------
(* telnetRead in its COMMAND state at an End-Of-Record byte.               *)

(* The stream after an IAC and the command byte c. *)
AfterCommand == Tail(Tail(frest))

(* The call returned what telnetRead returns for the stream s. *)
ReturnedAsFor(s) ==
    LET r == telnetRead(s, FALSE, TRUE)
    IN  /\ flast'.b = r.b /\ flast'.valid = r.valid /\ flast'.isEor = r.isEor
        /\ flast'.err = r.err
        /\ frest' = r.rest

(* A telnetRead call that finds IAC c next in the stream. *)
EORStep(c) ==
    (fpc = "reading" /\ Len(frest) >= 2 /\ frest[1] = iac /\ frest[2] = c)
    => IF flast'.passEOR
       THEN /\ flast'.isEor /\ ~flast'.valid /\ flast'.err = "nil"
            /\ frest' = AfterCommand
            /\ fgot' = fgot
       ELSE /\ ReturnedAsFor(AfterCommand)
            /\ feors' = feors

C30_WitnessSilent ==
    /\ Len(fin) >= 3 /\ fin[1] = iac /\ fin[2] = 239 /\ fin[3] = 193
    /\ flast # <<>> /\ ~flast.passEOR /\ flast.valid /\ flast.b = 193
    /\ frest = SubSeq(fin, 4, Len(fin))

-----------------------------------------------------------------------------
(* telnetReadN against the telnetRead calls it is made of.                 *)

(* What up to k telnetRead calls with passEOR return on the stream s, up   *)
(* to the first call that returns no valid byte.                           *)
RECURSIVE ReadsFrom(_, _)
ReadsFrom(s, k) ==
    IF k = 0 THEN <<>>
    ELSE LET r == telnetRead(s, TRUE, TRUE)
         IN  IF r.valid THEN <<r>> \o ReadsFrom(r.rest, k - 1) ELSE <<r>>

ReadNExpected(rs) ==
    IF \A i \in 1..Len(rs) : rs[i].valid
    THEN /\ qres.err = "nil" /\ ~qres.isnil
         /\ Len(qres.buf) = qn
         /\ \A i \in 1..qn : qres.buf[i] = rs[i].b
         /\ qrest = (IF qn = 0 THEN qfrom ELSE rs[qn].rest)
    ELSE /\ qres.isnil /\ qres.buf = <<>>
         /\ qres.err = (IF rs[Len(rs)].err # "nil" THEN rs[Len(rs)].err
                        ELSE IF Len(rs) = 1 THEN "nil" ELSE "ErrTelnetError")

\* C31: telnetReadN(n) returns the n bytes of n valid telnetRead results in
\* stream order when none of the first n results is an End-Of-Record; nil
\* and no error when the first result is the End-Of-Record; ErrTelnetError
\* when the End-Of-Record comes after at least one byte; the transport
\* error and no bytes when a read fails.
C31_ReadNResults == (qpc # "idle" /\ qres # <<>>) => ReadNExpected(ReadsFrom(qfrom, qn))

C31_Witness == qres # <<>> /\ qn = 3 /\ qres.err = "ErrTelnetError"
C31_WitnessFull == qres # <<>> /\ qn = 3 /\ qres.buf = <<193, 255, 193>> /\ Len(qfrom) = 4
C31_WitnessNil == qres # <<>> /\ qn = 2 /\ qres.isnil /\ qres.err = "nil" /\ qrest # <<>>
C31_WitnessFailed == qres # <<>> /\ qn = 2 /\ qres.err = "io" /\ qfrom = <<193>>

-----------------------------------------------------------------------------
(* The datastream of showScreenInternal: its first two bytes, its Insert   *)
(* Cursor order, its record terminator.                                    *)

Datastream == wwire[1]

(* The screen has alternate dimensions. *)
AlternateDimensions == ~wdev.nil /\ ~(wdev.rows = 24 /\ wdev.cols = 80)

\* C32: the first two bytes of the datastream are 0x7E 0xC3 when clearing
\* with alternate dimensions, 0xF5 0xC3 when clearing with the default
\* dimensions, and 0xF1 0xC2 when not clearing.
C32_CommandAndWCC ==
    wpc = "written" =>
        SubSeq(Datastream, 1, 2) =
            IF wclear THEN (IF AlternateDimensions THEN <<126, 195>> ELSE <<245, 195>>)
            ELSE <<241, 194>>

C32_Witness == wpc = "written" /\ ~wclear /\ ~wdev.nil /\ wscreen # <<>>
C32_WitnessAlternate == wpc = "written" /\ wclear /\ AlternateDimensions
C32_WitnessDefaultDev == wpc = "written" /\ wclear /\ ~wdev.nil /\ ~AlternateDimensions

(* The Insert Cursor orders of a datastream's orders and data: an SBA      *)
(* takes two address bytes, the second one doubled when it is 0xFF, an SF  *)
(* one attribute byte, an SFE its count and as many pairs.                 *)
RECURSIVE CountIC(_)
CountIC(bs) ==
    IF bs = <<>> THEN 0
    ELSE IF Head(bs) = SBA
    THEN CountIC(SubSeq(bs, (IF bs[3] = 255 THEN 5 ELSE 4), Len(bs)))
    ELSE IF Head(bs) = SF THEN CountIC(SubSeq(bs, 3, Len(bs)))
    ELSE IF Head(bs) = SFE THEN CountIC(SubSeq(bs, 3 + 2 * bs[2], Len(bs)))
    ELSE IF Head(bs) = IC THEN 1 + CountIC(Tail(bs))
    ELSE CountIC(Tail(bs))

(* The datastream between its first two bytes and its last two. *)
OrdersAndData == SubSeq(Datastream, 3, Len(Datastream) - 2)

(* The coordinate the cursor is to be put at. *)
InRangeOrZero(v, size) == IF v \in 0..(size - 1) THEN v ELSE 0

(* The datastream ends, before IAC EOR, with SBA, the address a as two     *)
(* bytes (three with a doubled 0xFF), and IC.                              *)
EndsWithCursorAt(a) ==
    \E k \in {4, 5} :
        /\ Len(OrdersAndData) >= k
        /\ LET o == SubSeq(OrdersAndData, Len(OrdersAndData) - k + 1, Len(OrdersAndData))
           IN  /\ o[1] = SBA /\ o[k] = IC
               /\ k = 5 => (o[3] = 255 /\ o[4] = 255)
               /\ decodeBufAddr(<<o[2], o[3]>>) = a

C33_WitnessRow == wpc = "written" /\ wclear /\ wcursor = <<-1, 2>> /\ EndsWithCursorAt(2)
C33_WitnessFar ==
    wpc = "written" /\ wclear /\ wcursor = <<27, 31>> /\ EndsWithCursorAt(4351)
C33_WitnessNoClear == wpc = "written" /\ ~wclear /\ wscreen # <<>>

(* Every 0xFF of bs is one of a pair. *)
RECURSIVE AllDoubled(_)
AllDoubled(bs) ==
    IF bs = <<>> THEN TRUE
    ELSE IF Head(bs) # 255 THEN AllDoubled(Tail(bs))
    ELSE Len(bs) >= 2 /\ bs[2] = 255 /\ AllDoubled(Tail(Tail(bs)))

\* C39: the bytes of the one Write end with IAC EOR (0xFF 0xEF) and every
\* other 0xFF in them is doubled, so that they hold exactly one record.
C39_OneRecordPerWrite ==
    wpc = "written" =>
        /\ Len(Datastream) >= 4
        /\ SubSeq(Datastream, Len(Datastream) - 1, Len(Datastream)) = <<255, 239>>
        /\ AllDoubled(SubSeq(Datastream, 1, Len(Datastream) - 2))

\* C38: every key of the fieldmap the screen writer returns is a buffer
\* address of the screen, in 0 .. rows*cols - 1.
C38_FieldmapKeysOnScreen ==
    wpc = "written" =>
        \A k \in DOMAIN wfm : k \in 0..(screenRows(wdev) * screenCols(wdev) - 1)

-----------------------------------------------------------------------------
(* The byte framer at a three-byte option command.                         *)

(* The stream is data bytes with one IAC DO <option> at position i. *)
OptionCommandAt(i) ==
    /\ i + 2 <= Len(fin)
    /\ fin[i] = iac /\ fin[i + 1] = do /\ fin[i + 2] \in {eorOption, 193}
    /\ \A j \in 1..Len(fin) : j \notin i..(i + 2) => fin[j] = 193

\* C34: of a three-byte option command IAC DO <option> in the inbound
\* stream the framer returns no byte as data: the data bytes returned are
\* those before and after the command.
C34_OptionCommandConsumed ==
    \A i \in 1..Len(fin) :
        (fpc = "failed" /\ OptionCommandAt(i)) => fgot = [j \in 1..(Len(fin) - 3) |-> 193]

-----------------------------------------------------------------------------
(* A client DO that crosses the terminal type request.                     *)

(* The server's Read for the terminal type reply returns IAC DO o. *)
TypeReadOf(o) ==
    /\ npc = "getType"
    /\ ninb # <<>>
    /\ Head(ninb) = <<iac, do, o>>
    /\ nlog' # nlog

C35_Step ==
    \A o \in {eorOption, binaryOption} :
        TypeReadOf(o) =>
            /\ npc' = "getType"
            /\ nres' = <<>>
            /\ View(nlog') = View(nlog) \o <<R(<<iac, do, o>>), W(<<iac, will, o>>)>>

\* C35: a client DO EOR or DO Binary that arrives while the server waits
\* for the terminal type reply does not end the negotiation: the server
\* writes the WILL for it and goes on waiting for the reply.
C35_CrossedTerminalType == [][C35_Step]_vars

(* ---- the device probe's loop over query reply fields ---- *)

ProbeDone == ppc = "done"

(* What a call of makeDeviceInfo can hand back besides a DevInfo. *)
TypedErrors == {"nil", "ErrTelnetError", "ErrUnknownTerminal", "EOF"}

NoCharacterSets == \A i \in 1..Len(pfields) : pfields[i] \notin CharacterSetsFields

\* C36: whatever length a query reply field declares, 0 to 3 included, the
\* device probe skips it, uses it or returns a typed error; it neither
\* panics nor indexes outside the bytes of the field.
C36_AnyDeclaredLength ==
    (ProbeDone /\ NoCharacterSets) => pres.err \in TypedErrors

(* The descriptors of a Character Sets field f (length bytes included):    *)
(* descriptor k is the dl bytes from offset k * dl after the descriptor    *)
(* length byte.                                                            *)
DescriptorLength(f) == f[13]
DescriptorBytes(f) == SubSeq(f, 14, Len(f))
Descriptors(f) ==
    IF DescriptorLength(f) = 0 THEN {}
    ELSE {k \in 0..Len(f) : (k + 1) * DescriptorLength(f) <= Len(DescriptorBytes(f))}
LocalID(f, k) == DescriptorBytes(f)[k * DescriptorLength(f) + 1]
LastTwoBytes(f, k) ==
    DescriptorBytes(f)[(k + 1) * DescriptorLength(f) - 1] * 256
        + DescriptorBytes(f)[(k + 1) * DescriptorLength(f)]
ZeroDescriptors(f) == {k \in Descriptors(f) : LocalID(f, k) = 0}
FirstZero(f) == CHOOSE k \in ZeroDescriptors(f) : \A j \in ZeroDescriptors(f) : k <= j
ExpectedCodepage(f) ==
    IF DescriptorLength(f) < 2 \/ ZeroDescriptors(f) = {} THEN 0
    ELSE LastTwoBytes(f, FirstZero(f))

OneCharacterSets == Len(pfields) = 1 /\ pfields[1] \in CharacterSetsFields

\* C37: for every Character Sets reply, descriptor lengths 0 and 1 and a
\* buffer of exactly 11 bytes included, getCodepageID returns and stays
\* within the buffer; its result is the last two bytes of the first
\* descriptor whose local ID is 0, and 0 when there is none.
C37_CodepageOfEveryReply ==
    (ProbeDone /\ OneCharacterSets) =>
        /\ pres.err = "nil"
        /\ pres.cpid = ExpectedCodepage(pfields[1])

(* ---- the Writes of two tasks on one connection ---- *)

(* The datastream of the call c is in, as showScreenInternal builds it. *)
DatastreamOf(c) ==
    showScreenInternal(sscreen[c], EmptyMap, sopts[c].CursorRow, sopts[c].CursorCol,
                       ~sopts[c].NoClear, sopts[c].AltScreen).b

(* The positions of bs where an IAC that no IAC escapes is followed by     *)
(* EOR: where the client ends a record.                                    *)
RunStart(bs, i) ==
    CHOOSE j \in 1..i : /\ \A k \in j..i : bs[k] = 255
                        /\ (j = 1 \/ bs[j - 1] # 255)
RecordEnds(bs) ==
    {i \in 1..(Len(bs) - 1) :
        bs[i] = 255 /\ bs[i + 1] = 239 /\ (i - RunStart(bs, i) + 1) % 2 = 1}

(* b is one whole record: from a write command to its only IAC EOR. *)
WholeRecord(b) ==
    /\ Len(b) >= 4
    /\ b[1] \in {245, 126, 241}
    /\ RecordEnds(b) = {Len(b) - 1}

(* What the client has received after the Writes ws. *)
Received(ws) == Flatten([k \in 1..Len(ws) |-> ws[k].b])

(* The step in which the call of c writes. *)
WriteStepOf(c) == slog'[c] = Append(slog[c], "write")

(* A writing step of c puts one Write on the connection, the whole         *)
(* datastream of the call, and the client finds one more record end, at    *)
(* the end of what it has received; no other step writes.                  *)
C40_Step ==
    /\ \A c \in Callers : WriteStepOf(c) =>
           /\ swire' = Append(swire, [by |-> c, b |-> DatastreamOf(c)])
           /\ WholeRecord(DatastreamOf(c))
           /\ RecordEnds(Received(swire')) =
                  RecordEnds(Received(swire)) \cup {Len(Received(swire')) - 1}
    /\ (\A c \in Callers : ~WriteStepOf(c)) => swire' = swire

\* C40: each ShowScreenOpts call makes exactly one Write, of its whole
\* datastream from the command byte to the final IAC EOR; so with two
\* tasks calling on one connection the client receives whole records, one
\* per Write and in the order of the Writes, never the bytes of one
\* datastream inside the other.
C40_OneWritePerCall == [][C40_Step]_vars

C40_Witness ==
    /\ Len(swire) = 2 /\ swire[1].by = "A" /\ swire[2].by = "U"
    /\ spc["A"] = "reading"
    /\ swire[1].b # swire[2].b
C40_WitnessUpdateFirst ==
    /\ Len(swire) = 2 /\ swire[1].by = "U" /\ swire[2].by = "A"
    /\ nupd = 1 /\ spc["U"] = "done"

====
